---- MODULE Spec2Model ----
(***************************************************************************)
(* A model of the NachOS kernel of this repository: the thread scheduler   *)
(* (scheduler.cc), the thread control block (thread.cc), the               *)
(* synchronisation primitives (synch.cc), the frame manager                *)
(* (framemanager.cc), the file system (filehdr.cc, filesys.cc) and the     *)
(* system call dispatcher (exception.cc).                                  *)
(*                                                                         *)
(* One simulated processor runs kernel->currentThread.  Every thread has a *)
(* stack of frames, one per active call; the frame on top is the code the  *)
(* thread executes next.  An action executes the code of one function from *)
(* one call or suspension point to the next.  A thread that is switched    *)
(* out inside Scheduler::Run keeps its frames and goes on from there when   *)
(* it is dispatched again.                                                 *)
(*                                                                         *)
(* Simulated time is kept relative to kernel->stats->totalTicks: the       *)
(* `when` of a sleep-list entry is the number of timer ticks still to pass *)
(* before the entry is due.                                                *)
(***************************************************************************)
EXTENDS Integers, Sequences, FiniteSets, TLC

VARIABLES
    schedulerType,   \* Scheduler::schedulerType
    isPreemptive,    \* Scheduler::isPreemptive
    threads,         \* the Thread objects: thread id -> fields
    readyList,       \* Scheduler::readyList
    sleepList,       \* Scheduler::sleepList
    currentThread,   \* kernel->currentThread
    toBeDestroyed,   \* Scheduler::toBeDestroyed
    level,           \* kernel->interrupt level: "IntOn" or "IntOff"
    userTicks,       \* kernel->stats->userTicks
    sems,            \* the Semaphore objects
    locks,           \* the Lock objects
    conds,           \* the Condition objects (their wait queues)
    mbox,            \* the Mailbox object
    stack,           \* thread id -> its active calls, innermost last
    prog,            \* thread id -> the operations its forked procedure calls
    abort,           \* "" or the assertion that stopped the simulator
    ev,              \* the call or return the last step completed
    hist,            \* history of completed operations
    frameManager,    \* kernel->frameManager: frameUsageBitmap
    disk,            \* the simulated disk: what the file system stored
    machine,         \* kernel->machine: register 2, user memory and the TLB
    paging,          \* kernel->coreMapManager and the page tables
    openFileTable,   \* Thread::openFileTable of each thread
    files            \* kernel->fileSystem as the dispatcher uses it

vars == <<schedulerType, isPreemptive, threads, readyList, sleepList,
          currentThread, toBeDestroyed, level, userTicks, sems, locks, conds,
          mbox, stack, prog, abort, ev, hist, frameManager, disk, machine,
          openFileTable, files, paging>>

----------------------------------------------------------------------------
(* Sizes of the scenarios. *)

NThreads == 3        \* thread objects: 1 is the main thread
NSems == 1
NUserLocks == 2
NUserConds == 1
MaxSleep == 2        \* longest SetSleep, in timer ticks
MaxSemInit == 1      \* largest initial value of a semaphore
MaxPreemptions == 2  \* timer interrupts that switch threads, per run
NumPhysPages == 2    \* physical frames
SectorSize == 2      \* bytes in a disk sector
NumDirect == 2       \* data sectors a file header points to
NumSectors == 10     \* sectors on the disk
NumDirEntries == 2   \* entries of a directory
DirEntrySize == 1    \* sizeof(DirectoryEntry)
NNames == 3          \* file names used by the tests
MaxNumUserOpenFiles == 2   \* entries of a thread's table of open files
MaxFileNameLength == 2     \* longest file name a system call reads
MaxByte == 2         \* largest byte value in user memory
FileCapacity == 1    \* bytes a file can hold
NumVirtPages == 3    \* pages of an address space
TLBSize == 2         \* entries of the TLB
MaxCallDepth == 8    \* nested calls of a donation the stack has room for
NPairs == 2          \* senders, and receivers, of a mailbox exchange

Threads == 1..NThreads
(* The threads of a mailbox exchange: NPairs senders and NPairs receivers,
   the main thread among them. *)
PairThreads == 1..(2 * NPairs)
NThreadObjects == IF 2 * NPairs > NThreads THEN 2 * NPairs ELSE NThreads
MainThread == 1
NoThread == 0        \* NULL
NoLock == 0          \* NULL
Sems == 1..NSems

(* Lock objects: the locks of the test program, Mailbox::mbLock,
   Thread::joinLock of each thread, and FrameManager::lock. *)
mbLock == NUserLocks + 1
joinLock(t) == NUserLocks + 1 + t
frameLock == NUserLocks + 2 + NThreadObjects
Locks == 1..(NUserLocks + 2 + NThreadObjects)

(* Condition objects: the conditions of the test program, Mailbox::sendWait
   and recvWait, and joinWait, finishWait, deleteWait of each thread. *)
sendWait == NUserConds + 1
recvWait == NUserConds + 2
joinWait(t) == NUserConds + 2 + t
finishWait(t) == NUserConds + 2 + NThreadObjects + t
deleteWait(t) == NUserConds + 2 + 2 * NThreadObjects + t
Conds == 1..(NUserConds + 2 + 3 * NThreadObjects)

InitialBurstTime == 10

----------------------------------------------------------------------------
(* The state as one record, so that the code of a function is the
   composition of the operations it calls. *)

S == [schedulerType |-> schedulerType, isPreemptive |-> isPreemptive,
      threads |-> threads, readyList |-> readyList, sleepList |-> sleepList,
      currentThread |-> currentThread, toBeDestroyed |-> toBeDestroyed,
      level |-> level, userTicks |-> userTicks, sems |-> sems,
      locks |-> locks, conds |-> conds, mbox |-> mbox, stack |-> stack,
      prog |-> prog, abort |-> abort, ev |-> ev, hist |-> hist,
      frameManager |-> frameManager, disk |-> disk, machine |-> machine,
      openFileTable |-> openFileTable, files |-> files, paging |-> paging]

Commit(s) ==
    \E r \in {s} :
        /\ schedulerType' = r.schedulerType
        /\ isPreemptive' = r.isPreemptive
        /\ threads' = r.threads
        /\ readyList' = r.readyList
        /\ sleepList' = r.sleepList
        /\ currentThread' = r.currentThread
        /\ toBeDestroyed' = r.toBeDestroyed
        /\ level' = r.level
        /\ userTicks' = r.userTicks
        /\ sems' = r.sems
        /\ locks' = r.locks
        /\ conds' = r.conds
        /\ mbox' = r.mbox
        /\ stack' = r.stack
        /\ prog' = r.prog
        /\ abort' = r.abort
        /\ ev' = r.ev
        /\ hist' = r.hist
        /\ frameManager' = r.frameManager
        /\ disk' = r.disk
        /\ machine' = r.machine
        /\ openFileTable' = r.openFileTable
        /\ files' = r.files
        /\ paging' = r.paging

(* ev: the call or return the last step completed, by or on thread t, on
   object obj.  For FindNextToRun called by t in Yield or Sleep, arg is the
   thread it returned.  For a wake-up, arg is the thread that had waited longest on
   obj; for a return from Condition::Wait, arg is the lock. *)
NoEvent == [op |-> "none", t |-> NoThread, obj |-> 0, arg |-> 0]
Event(s, op, t, obj) ==
    [s EXCEPT !.ev = [op |-> op, t |-> t, obj |-> obj, arg |-> 0]]
EventWith(s, op, t, obj, arg) ==
    [s EXCEPT !.ev = [op |-> op, t |-> t, obj |-> obj, arg |-> arg]]

(* A failed ASSERT stops the simulator. *)
Fail(s, what) == [s EXCEPT !.abort = what]

----------------------------------------------------------------------------
(* Frames. *)

Frame(fn, obj, aux) ==
    [fn |-> fn, pc |-> "entry", obj |-> obj, aux |-> aux, old |-> "IntOn"]

TopOf(s, t) == s.stack[t][Len(s.stack[t])]
Push(s, t, f) == [s EXCEPT !.stack[t] = Append(@, f)]
Pop(s, t) == [s EXCEPT !.stack[t] = SubSeq(@, 1, Len(@) - 1)]
SetPc(s, t, pc) == [s EXCEPT !.stack[t][Len(s.stack[t])].pc = pc]
SetOld(s, t, lv) == [s EXCEPT !.stack[t][Len(s.stack[t])].old = lv]
SetLevel(s, lv) == [s EXCEPT !.level = lv]

(* Faulty variant of OldLevel: the level is read when the loop is entered
   again, not saved on entry. *)
LevelNow(s, t) == s.level

(* Faulty variant of OldLevel: the function enables interrupts when it
   returns, whatever the level was when it was called. *)
LevelEnabled(s, t) == "IntOn"

(* The level a function saved on entry: at "entry" it is the current one. *)
OldLevel(s, t) ==
    IF TopOf(s, t).pc = "entry" THEN s.level ELSE TopOf(s, t).old

(* The simulator runs and the current thread is about to execute code of
   fn. *)
Executing(fn) ==
    /\ abort = ""
    /\ stack[currentThread] # <<>>
    /\ TopOf(S, currentThread).fn = fn

(* Thread::Sleep found no thread to run: the processor is in
   Interrupt::Idle until an interrupt readies one. *)
Idle(s) ==
    /\ s.stack[s.currentThread] # <<>>
    /\ TopOf(s, s.currentThread).fn = "Sleep"
    /\ TopOf(s, s.currentThread).pc = "idle"

----------------------------------------------------------------------------
(* list.h: List and SortedList. *)

ListRemove(list, x) ==
    LET idx == {i \in 1..Len(list) : list[i] = x}
    IN  IF idx = {} THEN list
        ELSE LET i == CHOOSE j \in idx : \A k \in idx : j <= k
             IN  SubSeq(list, 1, i - 1) \o SubSeq(list, i + 1, Len(list))

IsInList(list, x) == \E i \in 1..Len(list) : list[i] = x

(* SortedList::Insert with comparison less(x, y), "x sorts before y": the
   item goes before the first element it sorts before, else at the end. *)
InsertAt(list, x, idx) ==
    IF idx = {} THEN Append(list, x)
    ELSE LET i == CHOOSE j \in idx : \A k \in idx : j <= k
         IN  SubSeq(list, 1, i - 1) \o <<x>> \o SubSeq(list, i, Len(list))

----------------------------------------------------------------------------
(* thread.cc: priorities. *)

getEffectivePriority(th) ==
    IF th.isDonated THEN th.donatedPriority ELSE th.priority

Clamp(p) == IF p < 0 THEN 0 ELSE IF p > 7 THEN 7 ELSE p

setPriority(s, t, newPriority) ==
    [s EXCEPT !.threads[t].priority = Clamp(newPriority)]

(* Faulty variant of PredictBurst: the mean is rounded to the nearest
   integer, halves upwards, instead of truncated. *)
PredictBurstRounded(actual, burst) == (actual + burst + 1) \div 2

(* burstTime = (int)(alpha * actual + (1 - alpha) * burstTime), alpha 0.5 *)
PredictBurst(actual, burst) == (actual + burst) \div 2

UpdateBurst(s, t) ==
    [s EXCEPT !.threads[t].burstTime =
        PredictBurst(s.userTicks - s.threads[t].startTicks, @)]

----------------------------------------------------------------------------
(* scheduler.cc: the comparators. *)

PriorityComparator(a, b) ==
    IF a.priority > b.priority THEN -1
    ELSE IF a.priority < b.priority THEN 1 ELSE 0

EffectivePriorityComparator(a, b) ==
    IF getEffectivePriority(a) > getEffectivePriority(b) THEN -1
    ELSE IF getEffectivePriority(a) < getEffectivePriority(b) THEN 1 ELSE 0

CPUBurstTimeComparator(a, b) ==
    IF a.burstTime < b.burstTime THEN -1
    ELSE IF a.burstTime > b.burstTime THEN 1 ELSE 0

ThreadComparator(s, a, b) ==
    CASE s.schedulerType = "Priority" ->
            IF s.isPreemptive
            THEN EffectivePriorityComparator(s.threads[a], s.threads[b])
            ELSE PriorityComparator(s.threads[a], s.threads[b])
      [] s.schedulerType = "RR" -> 0
      [] s.schedulerType = "FCFS" -> 0
      [] s.schedulerType = "SJF" ->
            CPUBurstTimeComparator(s.threads[a], s.threads[b])

CompareThread(s, a, b) == ThreadComparator(s, a, b)

(* Faulty variant of the insertion in the ready list: in front of the
   threads as preferred as t. *)
ReadyListInsertBeforeEqual(s, t) ==
    InsertAt(s.readyList, t,
             {i \in 1..Len(s.readyList) :
                 ThreadComparator(s, t, s.readyList[i]) <= 0})

(* readyList->Insert(t), readyList being sorted by ThreadComparator. *)
ReadyListInsert(s, t) ==
    InsertAt(s.readyList, t,
             {i \in 1..Len(s.readyList) :
                 ThreadComparator(s, t, s.readyList[i]) < 0})

PendingCompare(x, y) ==
    IF x.when < y.when THEN -1 ELSE IF x.when > y.when THEN 1 ELSE 0

(* Faulty variant of the insertion in the sleep list: at the end. *)
SleepListAppend(list, p) == Append(list, p)

(* sleepList->Insert(toWakeUp), sleepList being sorted by PendingCompare. *)
SleepListInsert(list, p) ==
    InsertAt(list, p, {i \in 1..Len(list) : PendingCompare(p, list[i]) < 0})

----------------------------------------------------------------------------
(* scheduler.cc: the scheduler's operations. *)

(* Faulty variant of ReadyToRun: the thread is queued but its status is
   not set to READY. *)
ReadyToRunKeepsStatus(s, t) == [s EXCEPT !.readyList = ReadyListInsert(s, t)]

ReadyToRun(s, t) ==
    IF s.level # "IntOff" THEN Fail(s, "ReadyToRun: interrupts on")
    ELSE LET s1 == [s EXCEPT !.threads[t].status = "READY",
                             !.hist.madeReady =
                                 Append(SelectSeq(@, LAMBDA x : x # t), t),
                             !.hist.inserted =
                                 Append(SelectSeq(@, LAMBDA x : x # t), t)]
         IN  [s1 EXCEPT !.readyList = ReadyListInsert(s1, t)]

(* The ready list after FindNextToRun returned r.  hist.madeReady lists the
   threads of the ready list in the order of the calls of ReadyToRun that
   put them there, and hist.inserted in the order of their last insertion,
   by ReadyToRun or by UpdateReadyList. *)
TakeNext(s, r) ==
    [s EXCEPT !.readyList = r.readyList,
              !.hist.madeReady =
                  SelectSeq(@, LAMBDA x : IsInList(r.readyList, x)),
              !.hist.inserted =
                  SelectSeq(@, LAMBDA x : IsInList(r.readyList, x))]

(* Faulty variant of the test of FindNextToRun: the head must be strictly
   preferred. *)
HeadStrictlyPreferred(s) ==
    CompareThread(s, Head(s.readyList), s.currentThread) < 0

(* cmp <= 0 in FindNextToRun, cmp being CompareThread(readyList->Front(),
   currentThread). *)
HeadPreferred(s) ==
    CompareThread(s, Head(s.readyList), s.currentThread) <= 0

(* FindNextToRun: the thread to run next (NoThread for NULL) and the ready
   list it leaves. *)
FindNextToRun(s) ==
    LET cur == s.currentThread
        none == [next |-> NoThread, readyList |-> s.readyList]
        head == [next |-> Head(s.readyList), readyList |-> Tail(s.readyList)]
        stay == [next |-> cur, readyList |-> s.readyList]
    IN  IF ~s.isPreemptive
        THEN IF s.readyList = <<>> THEN none ELSE head
        ELSE IF s.threads[cur].status = "BLOCKED"
             THEN IF s.readyList = <<>> THEN none ELSE head
             ELSE IF s.readyList = <<>> THEN stay
                  ELSE IF HeadPreferred(s) THEN head ELSE stay

(* ~Thread: the thread's lock and conditions are deleted with it. *)
DeleteThread(s, t) ==
    IF t = s.currentThread THEN Fail(s, "~Thread: deleting current thread")
    ELSE IF s.locks[joinLock(t)].locked
            \/ s.locks[joinLock(t)].waitQueue # <<>>
    THEN Fail(s, "~Lock: lock in use")
    ELSE IF \/ s.conds[joinWait(t)] # <<>>
            \/ s.conds[finishWait(t)] # <<>>
            \/ s.conds[deleteWait(t)] # <<>>
    THEN Fail(s, "~Condition: threads waiting")
    ELSE [s EXCEPT !.threads[t].deleted = TRUE]

(* Faulty variant of CheckToBeDestroyed: the finished thread is left. *)
LeaveToBeDestroyed(s) == s

(* Scheduler::CheckToBeDestroyed *)
CheckToBeDestroyed(s) ==
    IF s.toBeDestroyed = NoThread THEN s
    ELSE [DeleteThread(s, s.toBeDestroyed) EXCEPT !.toBeDestroyed = NoThread]

(* tlbmanager.cc, replacementLRU.cc: the TLB of the machine.  machine.tlb is
   the array tlb, machine.lastUsed the array of the LRU strategy, and
   machine.totalTicks is kernel->stats->totalTicks.  A translation entry is
   a record of virtualPage, physicalPage and valid. *)

TLBSlots == 0..(TLBSize - 1)
VirtualPages == 0..(NumVirtPages - 1)
NoEntry == [virtualPage |-> -1, physicalPage |-> -1, valid |-> FALSE]

(* TLBManager::TLBManager *)
NewTLB == [i \in TLBSlots |-> NoEntry]

(* ReplacementLRU::ResetStatus *)
NewLastUsed == [i \in TLBSlots |-> -1]

(* Faulty variant of FindOneToReplace: the slot of the greatest value. *)
FindMostRecent(lastUsed) ==
    CHOOSE target \in TLBSlots :
        /\ \A i \in TLBSlots : lastUsed[target] >= lastUsed[i]
        /\ \A i \in TLBSlots : i < target => lastUsed[target] > lastUsed[i]

(* ReplacementLRU::FindOneToReplace: the first slot of the least value. *)
FindOneToReplace(lastUsed) ==
    CHOOSE target \in TLBSlots :
        /\ \A i \in TLBSlots : lastUsed[target] <= lastUsed[i]
        /\ \A i \in TLBSlots : i < target => lastUsed[target] < lastUsed[i]

(* The history hist.tlbUses lists the slots used since the TLB was cleaned,
   the one used last at the end. *)
Touch(uses, i) == Append(SelectSeq(uses, LAMBDA x : x # i), i)

(* TLBManager::FindEntryToCache *)
FindEntryToCache(m) ==
    LET invalid == {i \in TLBSlots : ~m.tlb[i].valid}
    IN  IF invalid # {}
        THEN CHOOSE i \in invalid : \A j \in invalid : i <= j
        ELSE FindOneToReplace(m.lastUsed)

(* TLBManager::CachePageEntry *)
CachePageEntry(s, pageEntry) ==
    LET targetEntryId == FindEntryToCache(s.machine)
    IN  [s EXCEPT !.machine.tlb[targetEntryId] =
                      [pageEntry EXCEPT !.valid = TRUE],
                  !.machine.lastUsed[targetEntryId] = s.machine.totalTicks,
                  !.hist.tlbUses = Touch(@, targetEntryId)]

(* TLBManager::FetchPageEntry.  FetchSlot is the slot the scan stops at, -1
   when it finds none; FetchedEntry is the entry returned, NoEntry for
   NULL; FetchPageEntry is the state after the call. *)
FetchSlot(m, vpn) ==
    LET hits == {i \in TLBSlots : m.tlb[i].valid /\ m.tlb[i].virtualPage = vpn}
    IN  IF hits = {} THEN -1
        ELSE CHOOSE i \in hits : \A j \in hits : i <= j

FetchedEntry(m, vpn) ==
    IF FetchSlot(m, vpn) = -1 THEN NoEntry ELSE m.tlb[FetchSlot(m, vpn)]

FetchPageEntry(s, vpn) ==
    LET i == FetchSlot(s.machine, vpn)
    IN  IF i = -1 THEN s
        ELSE [s EXCEPT !.machine.lastUsed[i] = s.machine.totalTicks,
                       !.hist.tlbUses = Touch(@, i)]

(* Faulty variant of CleanTLB: the entries stay valid. *)
KeepTLB(s) == s

(* TLBManager::CleanTLB *)
CleanTLB(s) ==
    [s EXCEPT !.machine.tlb = [i \in TLBSlots |-> [@[i] EXCEPT !.valid = FALSE]],
              !.machine.lastUsed = NewLastUsed,
              !.hist.tlbUses = <<>>]

(* Scheduler::Run up to SWITCH: the processor goes to nextThread.  What
   follows SWITCH runs when the old thread is dispatched again. *)
Run(s, nextThread, finishing) ==
    IF s.level # "IntOff" THEN Fail(s, "Run: interrupts on")
    ELSE IF finishing /\ s.toBeDestroyed # NoThread
    THEN Fail(s, "Run: toBeDestroyed not NULL")
    ELSE [s EXCEPT
            !.toBeDestroyed = IF finishing THEN s.currentThread ELSE @,
            !.currentThread = nextThread,
            !.machine = CleanTLB(s).machine,
            !.hist = CleanTLB(s).hist,
            !.threads[nextThread].status = "RUNNING",
            !.threads[nextThread].startTicks = s.userTicks]

(* Faulty variant of UpdateReadyList: the thread keeps its place. *)
KeepReadyList(s, t) == s

(* Scheduler::UpdateReadyList *)
UpdateReadyList(s, t) ==
    IF s.level # "IntOff" THEN Fail(s, "UpdateReadyList: interrupts on")
    ELSE IF ~IsInList(s.readyList, t) THEN s
    ELSE LET s1 == [s EXCEPT !.readyList = ListRemove(@, t),
                             !.hist.inserted =
                                 Append(SelectSeq(@, LAMBDA x : x # t), t)]
         IN  [s1 EXCEPT !.readyList = ReadyListInsert(s1, t)]

(* Thread::resetEffectivePriority: the new state (its result is the old
   isDonated). *)
resetEffectivePriority(s, t) ==
    IF s.level # "IntOff"
    THEN Fail(s, "resetEffectivePriority: interrupts on")
    ELSE IF s.threads[t].isDonated
    THEN UpdateReadyList([s EXCEPT !.threads[t].isDonated = FALSE], t)
    ELSE s

(* Faulty variant of the test of DonatePriority: a thread as preferred as
   the donee donates too. *)
DonationAcceptedOnTie(s, doner, donee) == CompareThread(s, doner, donee) <= 0

(* CompareThread(doner, donee) < 0 in DonatePriority. *)
DonationAccepted(s, doner, donee) == CompareThread(s, doner, donee) < 0

(* Scheduler::DonatePriority, Thread::setEffectivePriority and the two
   Notify...NewDonation, which call each other. *)
RECURSIVE DonatePriority(_, _, _)
RECURSIVE setEffectivePriority(_, _, _)

NotifyDesiredLockNewDonation(s, t) ==
    IF s.abort # "" \/ s.threads[t].desiredLock = NoLock THEN s
    ELSE DonatePriority(s, t, s.locks[s.threads[t].desiredLock].lockHolder)

NotifyDesiredJoinNewDonation(s, t) ==
    IF s.abort # "" \/ s.threads[t].desiredJoin = NoThread THEN s
    ELSE DonatePriority(s, t, s.threads[t].desiredJoin)

setEffectivePriority(s, t, newDonatedPriority) ==
    IF s.level # "IntOff" THEN Fail(s, "setEffectivePriority: interrupts on")
    ELSE
    LET s1 == [s EXCEPT !.threads[t].donatedPriority = newDonatedPriority,
                        !.threads[t].isDonated = TRUE]
        s2 == UpdateReadyList(s1, t)
        s3 == NotifyDesiredLockNewDonation(s2, t)
    IN  NotifyDesiredJoinNewDonation(s3, t)

DonatePriority(s, doner, donee) ==
    IF s.level # "IntOff" THEN Fail(s, "DonatePriority: interrupts on")
    ELSE IF doner = donee THEN Fail(s, "DonatePriority: doner is donee")
    ELSE IF DonationAccepted(s, doner, donee)
    THEN setEffectivePriority(s, donee,
                              getEffectivePriority(s.threads[doner]))
    ELSE s

(* The same functions call by call: a DonatePriority frame's obj is doner
   and its aux donee; a setEffectivePriority frame's obj is the thread and
   its aux newDonatedPriority.  The frames are on the stack of the current
   thread, which made the first call. *)
DonatePriorityStep(s) ==
    LET c == s.currentThread
        f == TopOf(s, c)
        doner == f.obj
        donee == f.aux
    IN  IF s.level # "IntOff" THEN Fail(s, "DonatePriority: interrupts on")
        ELSE IF doner = donee
        THEN Fail(s, "DonatePriority: doner is donee")
        ELSE IF f.pc = "entry" /\ DonationAccepted(s, doner, donee)
        THEN Push(SetPc(s, c, "set"), c,
                  Frame("setEffectivePriority", donee,
                        getEffectivePriority(s.threads[doner])))
        ELSE Event(Pop(s, c), "DonatePriority.return", doner, donee)

setEffectivePriorityStep(s) ==
    LET c == s.currentThread
        f == TopOf(s, c)
        t == f.obj
    IN  CASE f.pc = "entry" /\ s.level # "IntOff" ->
                Fail(s, "setEffectivePriority: interrupts on")
          [] f.pc = "entry" /\ s.level = "IntOff" ->
                LET s1 == [s EXCEPT !.threads[t].donatedPriority = f.aux,
                                    !.threads[t].isDonated = TRUE]
                IN  EventWith(SetPc(UpdateReadyList(s1, t), c, "lock"),
                              "setEffectivePriority", t, 0, f.aux)
          [] f.pc = "lock" ->
                IF s.threads[t].desiredLock = NoLock THEN SetPc(s, c, "join")
                ELSE Push(SetPc(s, c, "join"), c,
                          Frame("DonatePriority", t,
                                s.locks[s.threads[t].desiredLock].lockHolder))
          [] f.pc = "join" ->
                IF s.threads[t].desiredJoin = NoThread THEN Pop(s, c)
                ELSE Push(SetPc(s, c, "ret"), c,
                          Frame("DonatePriority", t, s.threads[t].desiredJoin))
          [] f.pc = "ret" -> Pop(s, c)

(* Faulty variant of DonatePriorityToLockHolder: nothing is donated. *)
DonateNothing(s, lk, doner) == s

(* Lock::DonatePriorityToLockHolder *)
DonatePriorityToLockHolder(s, lk, doner) ==
    DonatePriority(s, doner, s.locks[lk].lockHolder)

----------------------------------------------------------------------------
(* thread.cc: Yield and Sleep. *)

(* Thread::Yield from its first line to SWITCH, or to its end when the
   thread keeps the processor.  old is the level Yield found. *)
YieldBody(s, t, old) ==
    LET s0 == SetLevel(s, "IntOff")
        r == FindNextToRun(s0)
        s1 == TakeNext(s0, r)
    IN  IF s0.level # "IntOff" THEN Fail(s0, "FindNextToRun: interrupts on")
        ELSE IF r.next # NoThread /\ r.next # t
        THEN LET s2 == UpdateBurst(s1, t)
                 s3 == ReadyToRun(s2, t)
                 s4 == SetOld(SetPc(Push(s3, t, Frame("Yield", 0, 0)),
                                    t, "back"), t, old)
             IN  Run(s4, r.next, FALSE)
        ELSE SetLevel(s1, old)

YieldStep(s) ==
    LET t == s.currentThread
        f == TopOf(s, t)
    IN  CASE f.pc = "entry" ->
                LET s1 == YieldBody(Pop(s, t), t, s.level)
                IN  EventWith(s1, "FindNextToRun", t, 0, s1.currentThread)
          [] f.pc = "back" ->
                SetLevel(Pop(CheckToBeDestroyed(s), t), f.old)

(* Thread::Sleep from FindNextToRun on; the frame on top is Sleep's. *)
SleepDispatch(s, t) ==
    LET r == FindNextToRun(s)
        s1 == TakeNext(s, r)
    IN  IF s.level # "IntOff" THEN Fail(s, "FindNextToRun: interrupts on")
        ELSE IF r.next = NoThread
        THEN EventWith(SetPc(s1, t, "idle"), "FindNextToRun", t, 0, NoThread)
        ELSE EventWith(Run(SetPc(s1, t, "back"), r.next, TopOf(s, t).aux),
                       "FindNextToRun", t, 0, r.next)

SleepStep(s) ==
    LET t == s.currentThread
        f == TopOf(s, t)
    IN  CASE f.pc = "entry" ->
                IF s.level # "IntOff" THEN Fail(s, "Sleep: interrupts on")
                ELSE SleepDispatch(
                        [UpdateBurst(s, t) EXCEPT
                            !.threads[t].status = "BLOCKED"], t)
          [] f.pc = "idle" -> SleepDispatch(s, t)
          [] f.pc = "back" -> Pop(CheckToBeDestroyed(s), t)

(* Thread::Begin *)
BeginStep(s) ==
    LET t == s.currentThread
    IN  SetLevel(Pop(CheckToBeDestroyed(s), t), "IntOn")

(* Thread::StackAllocate: the first dispatch enters ThreadRoot, which calls
   Begin, the forked procedure, and Finish. *)
StackAllocate(s, t) ==
    [s EXCEPT !.stack[t] = <<[Frame("User", 1, 0) EXCEPT !.pc = "run"],
                             Frame("Begin", 0, 0)>>]

(* Thread::Fork; the frame's obj is the thread forked. *)
ForkStep(s) ==
    LET t == s.currentThread
        f == TopOf(s, t)
        child == f.obj
    IN  CASE f.pc = "entry" ->
                LET old == s.level
                    s1 == ReadyToRun(SetLevel(StackAllocate(s, child),
                                              "IntOff"), child)
                    s2 == SetLevel([s1 EXCEPT
                                      !.threads[child].forkCalled = TRUE],
                                   old)
                IN  IF s2.isPreemptive
                    THEN Push(SetPc(s2, t, "fin"), t, Frame("Yield", 0, 0))
                    ELSE Pop(s2, t)
          [] f.pc = "fin" -> Pop(s, t)

(* The threads on the sleep list. *)
Sleepers(s) == {s.sleepList[i].thread : i \in 1..Len(s.sleepList)}

(* Scheduler::SetSleep; the frame's obj is sleepTime.  hist.sleepAsked is
   the sleepTime of a thread's last SetSleep and hist.sleepTicks the ticks
   it has since spent on the sleep list. *)
SetSleepStep(s) ==
    LET t == s.currentThread
        f == TopOf(s, t)
    IN  CASE f.pc = "entry" ->
                IF f.obj <= 0 THEN Fail(s, "SetSleep: sleepTime <= 0")
                ELSE LET s1 == SetOld(SetLevel(s, "IntOff"), t, s.level)
                         s2 == [s1 EXCEPT !.sleepList =
                                  SleepListInsert(@, [thread |-> t,
                                                      when |-> f.obj]),
                                          !.hist.sleepAsked[t] = f.obj,
                                          !.hist.sleepTicks[t] = 0]
                     IN  Push(SetPc(s2, t, "fin"), t,
                              Frame("Sleep", 0, FALSE))
          [] f.pc = "fin" -> Pop(SetLevel(s, f.old), t)

(* Scheduler::WakeUpSleepingThread, `when` counted from now. *)
RECURSIVE WakeUpSleepingThread(_)
WakeUpSleepingThread(s) ==
    IF s.sleepList # <<>> /\ Head(s.sleepList).when <= 0
    THEN WakeUpSleepingThread(
            ReadyToRun([s EXCEPT !.sleepList = Tail(@)],
                       Head(s.sleepList).thread))
    ELSE s

(* One timer tick: the interrupt layer calls WakeUpSleepingThread and, when
   a thread is running, may have it yield on return from the handler. *)
TimerStep(s, yield) ==
    LET t == s.currentThread
        s0 == [s EXCEPT !.level = "IntOff",
                        !.sleepList = [i \in 1..Len(@) |->
                                         [@[i] EXCEPT !.when = @ - 1]],
                        !.hist.sleepTicks =
                            [x \in DOMAIN @ |->
                                IF x \in Sleepers(s) THEN @[x] + 1
                                ELSE @[x]]]
        s1 == SetLevel(WakeUpSleepingThread(s0), s.level)
        s2 == YieldBody(s1, t, s.level)
    IN  IF yield /\ ~Idle(s) /\ s.schedulerType # "FCFS"
        THEN IF s2.currentThread # t
             THEN [s2 EXCEPT !.hist.preemptions = @ + 1]
             ELSE s2
        ELSE s1

----------------------------------------------------------------------------
(* synch.cc: Semaphore. *)

(* Faulty variant of the loop test: "if" for "while", so that a woken
   thread does not test the value again. *)
SemaphoreBusyOnce(s, sem) ==
    s.sems[sem].value = 0 /\ TopOf(s, s.currentThread).pc = "entry"

(* Faulty variant of the loop test: P never waits. *)
SemaphoreNeverBusy(s, sem) == FALSE

(* The test of Semaphore::P's loop, which the thread evaluates on entry and
   again each time it wakes. *)
SemaphoreBusy(s, sem) == s.sems[sem].value = 0

(* Semaphore::P; the frame's obj is the semaphore. *)
SemaphorePStep(s) ==
    LET t == s.currentThread
        f == TopOf(s, t)
        sem == f.obj
        old == OldLevel(s, t)
        s0 == SetPc(SetOld(SetLevel(s, "IntOff"), t, old), t, "loop")
    IN  IF SemaphoreBusy(s, sem)
        THEN Push([s0 EXCEPT
                     !.sems[sem].queue = Append(@, t),
                     !.hist.semArrival[sem] = Append(@, t),
                     !.hist.pBlocked[sem] =
                        IF f.pc = "entry" THEN Append(@, t) ELSE @],
                  t, Frame("Sleep", 0, FALSE))
        ELSE Event(Pop([s0 EXCEPT
                          !.sems[sem].value = @ - 1,
                          !.level = old,
                          !.hist.nP[sem] = @ + 1,
                          !.hist.pReturned[sem] =
                             IF f.pc = "loop" THEN Append(@, t) ELSE @],
                       t),
                   "P.return", t, sem)

(* The waiter Semaphore::V readies: queue->RemoveFront(). *)
SemaphoreWakes(queue) == Head(queue)

(* Semaphore::V *)
SemaphoreVStep(s) ==
    LET t == s.currentThread
        f == TopOf(s, t)
        sem == f.obj
        old == s.level
        s0 == SetLevel(s, "IntOff")
        woken == SemaphoreWakes(s.sems[sem].queue)
        s1 == IF s0.sems[sem].queue # <<>>
              THEN EventWith(
                     ReadyToRun([s0 EXCEPT
                                   !.sems[sem].queue = ListRemove(@, woken),
                                   !.hist.semArrival[sem] =
                                      ListRemove(@, woken)],
                                woken),
                     "V.wake", woken, sem, Head(s.hist.semArrival[sem]))
              ELSE Event(s0, "V.return", t, sem)
    IN  Pop([s1 EXCEPT !.sems[sem].value = @ + 1,
                       !.level = old,
                       !.hist.nV[sem] = @ + 1], t)

----------------------------------------------------------------------------
(* synch.cc: Lock. *)

(* Faulty variant of IsHeldByCurrentThread: a held lock passes for held by
   the caller. *)
IsHeldByAnyThread(s, lk) == s.locks[lk].locked

IsHeldByCurrentThread(s, lk) == s.locks[lk].lockHolder = s.currentThread

(* Faulty variant of the loop test: "if" for "while", so that a woken
   thread takes the lock without testing it again. *)
LockBusyOnce(s, t, lk) == s.locks[lk].locked /\ TopOf(s, t).pc = "entry"

(* The test of Lock::Acquire's loop, which the thread evaluates on entry and
   again each time it wakes. *)
LockBusy(s, t, lk) == s.locks[lk].locked

(* Lock::Acquire; the frame's obj is the lock. *)
LockAcquireStep(s) ==
    LET t == s.currentThread
        f == TopOf(s, t)
        lk == f.obj
        old == OldLevel(s, t)
        s0 == SetPc(SetOld(SetLevel(s, "IntOff"), t, old), t, "loop")
    IN  IF f.pc = "entry" /\ s.locks[lk].locked
           /\ IsHeldByCurrentThread(s, lk)
        THEN Fail(s, "Acquire: lock held by current thread")
        ELSE IF LockBusy(s, t, lk)
        THEN LET s1 == DonatePriorityToLockHolder(s0, lk, t)
             IN  Push([s1 EXCEPT !.locks[lk].waitQueue = Append(@, t)],
                      t, Frame("Sleep", 0, FALSE))
        ELSE Event(Pop([s0 EXCEPT
                          !.locks[lk].locked = TRUE,
                          !.locks[lk].lockHolder = t,
                          !.level = old,
                          !.hist.holds[lk] = @ \cup {t},
                          !.hist.acquired[lk] = @ \cup {t}], t),
                   "Acquire.return", t, lk)

RECURSIVE ReadyAll(_, _)
ReadyAll(s, queue) ==
    IF queue = <<>> THEN s ELSE ReadyAll(ReadyToRun(s, Head(queue)), Tail(queue))

(* Faulty variant of the loop of Release: one waiter is readied, as in
   Semaphore::V. *)
ReadyFirstWaiter(s, queue) ==
    IF queue = <<>> THEN s ELSE ReadyToRun(s, Head(queue))

(* while (!waitQueue->IsEmpty()) ReadyToRun(waitQueue->RemoveFront()) in
   Lock::Release. *)
ReadyWaiters(s, queue) == ReadyAll(s, queue)

(* Lock::Release up to the Yield that may end it. *)
LockReleaseBody(s, t, lk) ==
    LET old == s.level
        s0 == SetLevel(s, "IntOff")
        s1 == resetEffectivePriority(s0, s0.locks[lk].lockHolder)
        s2 == ReadyWaiters([s1 EXCEPT
                          !.locks[lk].waitQueue = <<>>,
                          !.hist.readied[lk] =
                             @ \cup {s1.locks[lk].waitQueue[i] :
                                        i \in 1..Len(s1.locks[lk].waitQueue)}],
                            s1.locks[lk].waitQueue)
    IN  [s2 EXCEPT !.locks[lk].lockHolder = NoThread,
                   !.locks[lk].locked = FALSE,
                   !.level = old]

LockReleaseStep(s) ==
    LET t == s.currentThread
        f == TopOf(s, t)
        lk == f.obj
        called == [s EXCEPT !.hist.holds[lk] = @ \ {t}]
    IN  CASE f.pc = "entry" ->
                IF ~s.locks[lk].locked THEN Fail(called, "Release: lock free")
                ELSE IF ~IsHeldByCurrentThread(s, lk)
                THEN Fail(called, "Release: not the lock holder")
                ELSE LET didLockHolderHaveBeenDonated ==
                            s.threads[s.locks[lk].lockHolder].isDonated
                         s1 == LockReleaseBody(called, t, lk)
                     IN  IF s1.isPreemptive /\ didLockHolderHaveBeenDonated
                         THEN Push([SetPc(s1, t, "fin") EXCEPT
                                      !.stack[t][Len(s.stack[t])].aux =
                                          s.locks[lk].waitQueue],
                                   t, Frame("Yield", 0, 0))
                         ELSE EventWith(Pop(s1, t), "Release.return", t, lk,
                                        s.locks[lk].waitQueue)
          [] f.pc = "fin" ->
                EventWith(Pop(s, t), "Release.return", t, lk, f.aux)

----------------------------------------------------------------------------
(* synch.cc: Condition.  A Wait frame's obj is the condition and its aux
   the lock, and so for Signal and Broadcast. *)

(* Faulty variant of Wait: the caller does not sleep. *)
WaitSkipsSleep(s, t) == SetPc(s, t, "slept")

(* currentThread->Sleep(FALSE) in Condition::Wait. *)
WaitSleeps(s, t) == Push(SetPc(s, t, "slept"), t, Frame("Sleep", 0, FALSE))

ConditionWaitStep(s) ==
    LET t == s.currentThread
        f == TopOf(s, t)
        cv == f.obj
        lk == f.aux
    IN  CASE f.pc = "entry" ->
                IF ~IsHeldByCurrentThread(s, lk)
                THEN Fail(s, "Wait: not the lock holder")
                ELSE LET s1 == SetPc(SetOld(SetLevel(s, "IntOff"), t,
                                            s.level), t, "released")
                         s2 == [s1 EXCEPT !.conds[cv] = Append(@, t),
                                          !.hist.signalled = @ \ {t},
                                          !.hist.arrival[cv] = Append(@, t)]
                     IN  Push(s2, t, Frame("Release", lk, 0))
          [] f.pc = "released" -> WaitSleeps(s, t)
          [] f.pc = "slept" ->
                Push(SetPc(SetLevel(s, f.old), t, "acquired"), t,
                     Frame("Acquire", lk, 0))
          [] f.pc = "acquired" ->
                EventWith(Pop(s, t), "Wait.return", t, cv, lk)

(* Faulty variant of Signal: the newest waiter is readied. *)
ConditionWakesLast(queue) == queue[Len(queue)]

(* The waiter Condition::Signal readies: waitQueue->RemoveFront(). *)
ConditionWakes(queue) == Head(queue)

ConditionSignalStep(s) ==
    LET t == s.currentThread
        f == TopOf(s, t)
        cv == f.obj
        lk == f.aux
        old == s.level
        s0 == SetLevel(s, "IntOff")
        woken == ConditionWakes(s.conds[cv])
    IN  IF ~IsHeldByCurrentThread(s, lk)
        THEN Fail(s, "Signal: not the lock holder")
        ELSE IF s.conds[cv] # <<>>
        THEN EventWith(
                 Pop(SetLevel(
                       ReadyToRun([s0 EXCEPT
                                     !.conds[cv] = ListRemove(@, woken),
                                     !.hist.arrival[cv] =
                                        ListRemove(@, woken),
                                     !.hist.signalled = @ \cup {woken}],
                                  woken), old), t),
                 "Signal.wake", woken, cv, Head(s.hist.arrival[cv]))
        ELSE Pop(s, t)

ConditionBroadcastStep(s) ==
    LET t == s.currentThread
        f == TopOf(s, t)
    IN  IF s.conds[f.obj] # <<>>
        THEN Push(s, t, Frame("Signal", f.obj, f.aux))
        ELSE Pop(s, t)

----------------------------------------------------------------------------
(* synch.cc: Mailbox.  A Send frame's obj is the message. *)

(* Faulty variant of the loop test of Send: the buffer is not tested. *)
SendMustWaitForReceiveOnly(s) == s.mbox.numRecvCalled = 0

(* The tests of the loops of Mailbox::Send and Mailbox::Receive. *)
SendMustWait(s) == ~s.mbox.bufferWritable \/ s.mbox.numRecvCalled = 0

MailboxSendStep(s) ==
    LET t == s.currentThread
        f == TopOf(s, t)
    IN  CASE f.pc = "entry" ->
                Push(SetPc(s, t, "loop"), t, Frame("Acquire", mbLock, 0))
          [] f.pc = "loop" ->
                IF SendMustWait(s)
                THEN Push(s, t, Frame("Wait", sendWait, mbLock))
                ELSE Event(Push(SetPc([s EXCEPT
                                         !.mbox.buffer = f.obj,
                                         !.mbox.bufferWritable = FALSE,
                                         !.hist.sent = Append(@, f.obj)],
                                      t, "signalled"),
                                t, Frame("Signal", recvWait, mbLock)),
                           "Send.store", t, f.obj)
          [] f.pc = "signalled" ->
                Push(SetPc(s, t, "fin"), t, Frame("Release", mbLock, 0))
          [] f.pc = "fin" -> Event(Pop(s, t), "Send.return", t, f.obj)

ReceiveMustWait(s) == s.mbox.bufferWritable

MailboxReceiveStep(s) ==
    LET t == s.currentThread
        f == TopOf(s, t)
    IN  CASE f.pc = "entry" ->
                Push(SetPc(s, t, "got"), t, Frame("Acquire", mbLock, 0))
          [] f.pc = "got" ->
                Push(SetPc([s EXCEPT !.mbox.numRecvCalled = @ + 1],
                           t, "loop"),
                     t, Frame("Signal", sendWait, mbLock))
          [] f.pc = "loop" ->
                IF ReceiveMustWait(s)
                THEN Push(s, t, Frame("Wait", recvWait, mbLock))
                ELSE Push(SetPc([s EXCEPT
                                   !.mbox.numRecvCalled = @ - 1,
                                   !.mbox.bufferWritable = TRUE,
                                   !.hist.received =
                                      Append(@, s.mbox.buffer)],
                                t, "fin"),
                          t, Frame("Release", mbLock, 0))
          [] f.pc = "fin" -> Event(Pop(s, t), "Receive.return", t, 0)

----------------------------------------------------------------------------
(* thread.cc: Finish and Join. *)

(* Faulty variant of the second loop test of Finish: the thread does not
   wait for readyToFinish. *)
FinishNeverWaitsForDelete(s, t) == FALSE

(* The tests of the two loops of Thread::Finish and of the loop of
   Thread::Join. *)
FinishMustWaitForJoin(s, t) == ~s.threads[t].joinCalled
FinishMustWaitForDelete(s, t) == ~s.threads[t].readyToFinish
JoinMustWaitForFinish(s, j) == ~s.threads[j].finishCalled

FinishStep(s) ==
    LET t == s.currentThread
        f == TopOf(s, t)
        s0 == SetLevel(s, "IntOff")
        waitJoin ==
            IF FinishMustWaitForJoin(s0, t)
            THEN Push(SetPc(s0, t, "loop1"), t,
                      Frame("Wait", joinWait(t), joinLock(t)))
            ELSE Push(SetPc(s0, t, "signalled"), t,
                      Frame("Signal", finishWait(t), joinLock(t)))
        waitDelete(s1) ==
            IF FinishMustWaitForDelete(s1, t)
            THEN Push(SetPc(s1, t, "loop2"), t,
                      Frame("Wait", deleteWait(t), joinLock(t)))
            ELSE Push(SetPc(s1, t, "released"), t,
                      Frame("Release", joinLock(t), 0))
    IN  CASE f.pc = "entry" ->
                IF s.threads[t].isJoinable
                THEN Push(SetPc([s0 EXCEPT !.hist.finishing = @ \cup {t}],
                                t, "locked"),
                          t, Frame("Acquire", joinLock(t), 0))
                ELSE Push(SetPc([s0 EXCEPT !.hist.finishing = @ \cup {t}],
                                t, "dead"),
                          t, Frame("Sleep", 0, TRUE))
          [] f.pc = "locked" ->
                LET s1 == [s EXCEPT !.threads[t].finishCalled = TRUE]
                IN  IF FinishMustWaitForJoin(s1, t)
                    THEN Push(SetPc(s1, t, "loop1"), t,
                              Frame("Wait", joinWait(t), joinLock(t)))
                    ELSE Push(SetPc(s1, t, "signalled"), t,
                              Frame("Signal", finishWait(t), joinLock(t)))
          [] f.pc = "loop1" -> waitJoin
          [] f.pc = "signalled" ->
                waitDelete(IF s.isPreemptive
                           THEN resetEffectivePriority(setPriority(s, t, 0), t)
                           ELSE s)
          [] f.pc = "loop2" -> waitDelete(s0)
          [] f.pc = "released" ->
                Push(SetPc(s, t, "dead"), t, Frame("Sleep", 0, TRUE))
          [] f.pc = "dead" -> Fail(s, "Finish: not reached")

(* Thread::Join; the frame's obj is the thread joined (this). *)
JoinStep(s) ==
    LET t == s.currentThread
        f == TopOf(s, t)
        j == f.obj
        wait(s1) ==
            IF JoinMustWaitForFinish(s1, j)
            THEN LET s2 == IF s1.isPreemptive
                           THEN SetLevel(
                                  DonatePriority(
                                    [SetLevel(s1, "IntOff") EXCEPT
                                        !.threads[t].desiredJoin = j],
                                    t, j),
                                  s1.level)
                           ELSE s1
                 IN  Push(SetPc(s2, t, "loop"), t,
                          Frame("Wait", finishWait(j), joinLock(j)))
            ELSE IF s1.level # "IntOff"
            THEN Fail(s1, "resetDesiredJoin: interrupts on")
            ELSE Push(SetPc([s1 EXCEPT !.threads[t].desiredJoin = NoThread],
                            t, "s1"),
                      t, Frame("Signal", joinWait(j), joinLock(j)))
    IN  CASE f.pc = "entry" ->
                IF j = t THEN Fail(s, "Join: joining itself")
                ELSE IF ~s.threads[j].isJoinable
                THEN Fail(s, "Join: not joinable")
                ELSE IF s.threads[j].joinCalled
                THEN Fail(s, "Join: called twice")
                ELSE IF ~s.threads[j].forkCalled
                THEN Fail(s, "Join: not forked")
                ELSE Push(SetPc(SetOld(SetLevel(s, "IntOff"), t, s.level),
                                t, "locked"),
                          t, Frame("Acquire", joinLock(j), 0))
          [] f.pc = "locked" ->
                wait([s EXCEPT !.threads[j].joinCalled = TRUE])
          [] f.pc = "loop" -> wait(s)
          [] f.pc = "s1" ->
                Push(SetPc([s EXCEPT !.threads[j].readyToFinish = TRUE],
                           t, "s2"),
                     t, Frame("Signal", deleteWait(j), joinLock(j)))
          [] f.pc = "s2" ->
                Push(SetPc(s, t, "fin"), t, Frame("Release", joinLock(j), 0))
          [] f.pc = "fin" ->
                Event(Pop(SetLevel(s, f.old), t), "Join.return", t, j)

----------------------------------------------------------------------------
(* bitmap.h: Bitmap.  A bitmap is the set of its marked bits, numbered from
   0.  FindAndSet marks the lowest clear bit and returns it, or returns -1
   when every bit is marked. *)
BitmapTest(map, which) == which \in map
BitmapMark(map, which) == map \cup {which}
BitmapClear(map, which) == map \ {which}
BitmapNumClear(map, numItems) == numItems - Cardinality(map)
BitmapFind(map, numItems) ==
    IF \E i \in 0..(numItems - 1) : ~BitmapTest(map, i)
    THEN CHOOSE i \in 0..(numItems - 1) :
            /\ ~BitmapTest(map, i)
            /\ \A j \in 0..(i - 1) : BitmapTest(map, j)
    ELSE -1
BitmapFindAndSet(map, numItems) ==
    LET which == BitmapFind(map, numItems)
    IN  [which |-> which,
         map |-> IF which = -1 THEN map ELSE BitmapMark(map, which)]

----------------------------------------------------------------------------
(* framemanager.cc.  frameManager.bitmap is frameUsageBitmap; the history
   frameManager.held[t] is the set of frames Acquire handed to thread t and
   t has not released. *)

Frames == 0..(NumPhysPages - 1)

(* FrameManager::FrameManager *)
NewFrameManager == [bitmap |-> {}, held |-> [t \in Threads |-> {}]]

(* Faulty variant of the Clear in Release: the bit stays marked. *)
FrameStaysMarked(s, frameNumber) == s

(* frameUsageBitmap->Clear(frameNumber) in FrameManager::Release. *)
FrameClear(s, frameNumber) ==
    [s EXCEPT !.frameManager.bitmap = BitmapClear(@, frameNumber)]

(* The value a call returns to CoreMapManager::PushEntryToTLB is kept in
   the aux of the caller's frame; the test programs drop it. *)
Return(s, t, value) ==
    IF s.stack[t] # <<>> /\ TopOf(s, t).fn = "PushEntryToTLB"
    THEN [s EXCEPT !.stack[t][Len(s.stack[t])].aux = value]
    ELSE s

(* FrameManager::Acquire; the frame's aux is frameNumber. *)
FrameManagerAcquireStep(s) ==
    LET t == s.currentThread
        f == TopOf(s, t)
        found == BitmapFindAndSet(s.frameManager.bitmap, NumPhysPages)
        numClear == BitmapNumClear(s.frameManager.bitmap, NumPhysPages)
    IN  CASE f.pc = "entry" ->
                Push(SetPc(s, t, "locked"), t, Frame("Acquire", frameLock, 0))
          [] f.pc = "locked" ->
                LET s1 == [s EXCEPT
                             !.frameManager.bitmap = found.map,
                             !.frameManager.held[t] =
                                 IF found.which = -1 THEN @
                                 ELSE @ \cup {found.which},
                             !.stack[t][Len(s.stack[t])].aux = found.which]
                    s2 == EventWith(s1, "FindAndSet", t, numClear,
                                    found.which)
                IN  Push(SetPc(s2, t, "unlocked"), t,
                         Frame("Release", frameLock, 0))
          [] f.pc = "unlocked" ->
                EventWith(Return(Pop(s, t), t, f.aux),
                          "FrameAcquire.return", t, 0, f.aux)

(* FrameManager::Release.  The caller releases the lowest frame it holds and
   does not call Release when it holds none; the frame's aux is
   frameNumber. *)
FrameManagerReleaseStep(s) ==
    LET t == s.currentThread
        f == TopOf(s, t)
        mine == s.frameManager.held[t]
        frameNumber == CHOOSE x \in mine : \A y \in mine : x <= y
    IN  CASE f.pc = "entry" ->
                IF mine = {} THEN Pop(s, t)
                ELSE Push([SetPc(s, t, "locked") EXCEPT
                              !.stack[t][Len(s.stack[t])].aux = frameNumber],
                          t, Frame("Acquire", frameLock, 0))
          [] f.pc = "locked" ->
                LET s1 == [FrameClear(s, f.aux) EXCEPT
                              !.frameManager.held[t] = @ \ {f.aux}]
                IN  Push(SetPc(s1, t, "unlocked"), t,
                         Frame("Release", frameLock, 0))
          [] f.pc = "unlocked" ->
                EventWith(Pop(s, t), "FrameRelease.return", t, 0, f.aux)

(* FrameManager::GetNumAvailFrames; the frame's aux is numAvailFrames. *)
FrameManagerGetNumAvailFramesStep(s) ==
    LET t == s.currentThread
        f == TopOf(s, t)
        numClear == BitmapNumClear(s.frameManager.bitmap, NumPhysPages)
    IN  CASE f.pc = "entry" ->
                Push(SetPc(s, t, "locked"), t, Frame("Acquire", frameLock, 0))
          [] f.pc = "locked" ->
                LET s1 == [s EXCEPT
                             !.stack[t][Len(s.stack[t])].aux = numClear]
                    s2 == EventWith(s1, "NumClear", t, 0, numClear)
                IN  Push(SetPc(s2, t, "unlocked"), t,
                         Frame("Release", frameLock, 0))
          [] f.pc = "unlocked" ->
                EventWith(Pop(s, t), "GetNumAvailFrames.return", t, 0, f.aux)

----------------------------------------------------------------------------
(* coremapmanager.cc.  paging.coreMap is the array coreMap: for each frame
   the vpn and the owner it was loaded for; the address space of a thread is
   named by the thread.  paging.pageTable[t] is the page table of the
   address space of t, and the history paging.loads is the set of calls of
   LoadPageFromDisk. *)

(* CoreMapManager::CoreMapManager, CoreMapEntry::CoreMapEntry *)
NewCoreMapManager ==
    [coreMap |-> [i \in Frames |-> [vpn |-> -1, owner |-> NoThread]],
     pageTable |-> [t \in Threads |-> [vpn \in VirtualPages |->
                      [NoEntry EXCEPT !.virtualPage = vpn]]],
     loads |-> {}]

(* AddrSpace::LoadPageFromDisk: the page table entry of vpn names the frame
   and is valid. *)
LoadPageFromDisk(s, t, vpn, ppn) ==
    [s EXCEPT !.paging.pageTable[t][vpn] =
                  [virtualPage |-> vpn, physicalPage |-> ppn, valid |-> TRUE],
              !.paging.loads = @ \cup {[owner |-> t, vpn |-> vpn,
                                        ppn |-> ppn]}]

(* CoreMapManager::FetchPageEntry: the page table entry of vpn if a frame
   holds the page for the current address space, NoEntry for NULL. *)
CoreMapFetchPageEntry(s, vpn) ==
    LET t == s.currentThread
    IN  IF \E i \in Frames : /\ s.paging.coreMap[i].vpn = vpn
                             /\ s.paging.coreMap[i].owner = t
        THEN s.paging.pageTable[t][vpn]
        ELSE NoEntry

(* coreMap[availPageEntryId]->vpn = vpn; ->owner = space.  With the index -1
   the pointer is read in front of the array: the behaviour is undefined.
   Either the store faults and the simulator dies, or it lands outside the
   core map and execution goes on. *)
CoreMapRecord(s, t, vpn, availPageEntryId, ub) ==
    IF availPageEntryId \in Frames
    THEN [s EXCEPT !.paging.coreMap[availPageEntryId] =
                       [vpn |-> vpn, owner |-> t]]
    ELSE IF ub = "fault" THEN Fail(s, "PushEntryToTLB: segmentation fault")
    ELSE s

UndefinedOutcomes == {"fault", "stray"}

(* CoreMapManager::PushEntryToTLB; the frame's obj is vpn and its aux is
   availPageEntryId.  The clock has advanced since the last refill. *)
PushEntryToTLBStep(s, ub) ==
    LET t == s.currentThread
        f == TopOf(s, t)
        vpn == f.obj
        targetEntry == CoreMapFetchPageEntry(s, vpn)
    IN  CASE f.pc = "entry" ->
                LET s1 == [s EXCEPT !.machine.totalTicks = @ + 1]
                IN  IF targetEntry = NoEntry
                    THEN Push(SetPc(s1, t, "acquired"), t,
                              Frame("FrameAcquire", 0, 0))
                    ELSE EventWith(Pop(CachePageEntry(s1, targetEntry), t),
                                   "PushEntryToTLB.return", t, vpn, "hit")
          [] f.pc = "acquired" ->
                LET availPageEntryId == f.aux
                    s1 == LoadPageFromDisk(s, t, vpn, availPageEntryId)
                    loaded == s1.paging.pageTable[t][vpn]
                    s2 == CoreMapRecord(s1, t, vpn, availPageEntryId, ub)
                IN  IF s2.abort # ""
                    THEN EventWith(s2, "PushEntryToTLB.fault", t, vpn,
                                   "fault")
                    ELSE EventWith(Pop(CachePageEntry(s2, loaded), t),
                                   "PushEntryToTLB.return", t, vpn, "miss")

(* The machine translates an address of page vpn for the current thread:
   it asks the TLB, and on a miss the page fault handler calls
   PushEntryToTLB and the access is made again.  The frame's obj is vpn.
   The clock has advanced by ticks since the last access: two accesses of
   one instruction are made at the same tick. *)
TranslateStep(s, ticks) ==
    LET t == s.currentThread
        f == TopOf(s, t)
        vpn == f.obj
        s1 == [s EXCEPT !.machine.totalTicks = @ + ticks]
    IN  CASE f.pc = "entry" ->
                IF FetchSlot(s1.machine, vpn) = -1
                THEN Push(SetPc(s1, t, "fault"), t,
                          Frame("PushEntryToTLB", vpn, 0))
                ELSE EventWith(Pop(FetchPageEntry(s1, vpn), t),
                               "Translate.return", t, vpn,
                               FetchedEntry(s1.machine, vpn))
          [] f.pc = "fault" -> SetPc(s, t, "entry")

----------------------------------------------------------------------------
(* filehdr.cc: FileHeader.  A header object is a record; dataSectors has
   NumDirect entries, all 0 in a new header.  A chain of header objects
   linked by nextFileHeader is a sequence, the header of the file first:
   nextFileHeader of chain[i] is chain[i + 1], and NULL for the last one. *)

MaxFileSize == NumDirect * SectorSize
divRoundUp(n, s) == (n + s - 1) \div s
min(a, b) == IF a < b THEN a ELSE b

(* FileHeader::FileHeader *)
NewFileHeader ==
    [numBytes |-> -1, numSectors |-> -1, nextFileHeaderSector |-> -1,
     dataSectors |-> [i \in 1..NumDirect |-> 0]]

(* The loop of FindAndSet calls in Allocate: it stops at the first -1. *)
RECURSIVE AllocateSectors(_, _, _, _)
AllocateSectors(hdr, map, i, numSectors) ==
    IF i > numSectors THEN [success |-> TRUE, hdr |-> hdr, map |-> map]
    ELSE LET found == BitmapFindAndSet(map, NumSectors)
             h == [hdr EXCEPT !.dataSectors[i] = found.which]
         IN  IF found.which = -1
             THEN [success |-> FALSE, hdr |-> h, map |-> found.map]
             ELSE AllocateSectors(h, found.map, i + 1, numSectors)

(* FileHeader::Allocate on a new header: the result, the chain of header
   objects it leaves and the free map. *)
RECURSIVE Allocate(_, _)
Allocate(freeMap, fileSize) ==
    LET numTotalSectors == divRoundUp(fileSize, SectorSize)
        hdr == [NewFileHeader EXCEPT
                   !.numBytes = fileSize,
                   !.numSectors = min(numTotalSectors, NumDirect)]
        data == AllocateSectors(hdr, freeMap, 1, hdr.numSectors)
        next == BitmapFindAndSet(data.map, NumSectors)
        rest == Allocate(next.map, fileSize - MaxFileSize)
    IN  IF BitmapNumClear(freeMap, NumSectors) < hdr.numSectors
        THEN [success |-> FALSE, chain |-> <<hdr>>, map |-> freeMap]
        ELSE IF ~data.success
        THEN [success |-> FALSE, chain |-> <<data.hdr>>, map |-> data.map]
        ELSE IF numTotalSectors > NumDirect
        THEN IF next.which = -1
             THEN [success |-> FALSE, chain |-> <<data.hdr>>,
                   map |-> next.map]
             ELSE [success |-> rest.success,
                   chain |-> <<[data.hdr EXCEPT
                                  !.nextFileHeaderSector = next.which]>>
                             \o rest.chain,
                   map |-> rest.map]
        ELSE [success |-> TRUE, chain |-> <<data.hdr>>, map |-> data.map]

(* The loop of Deallocate over one header's data sectors: ok is FALSE when
   the ASSERT finds a sector that is not marked. *)
RECURSIVE DeallocateSectors(_, _, _)
DeallocateSectors(hdr, map, i) ==
    IF i > hdr.numSectors THEN [ok |-> TRUE, map |-> map]
    ELSE IF ~BitmapTest(map, hdr.dataSectors[i])
    THEN [ok |-> FALSE, map |-> map]
    ELSE DeallocateSectors(hdr, BitmapClear(map, hdr.dataSectors[i]), i + 1)

(* FileHeader::Deallocate: the rest of the chain first, then the data
   sectors of this header. *)
RECURSIVE Deallocate(_, _)
Deallocate(chain, freeMap) ==
    LET rest == Deallocate(Tail(chain), freeMap)
    IN  IF Len(chain) > 1
        THEN IF rest.ok THEN DeallocateSectors(Head(chain), rest.map, 1)
             ELSE rest
        ELSE DeallocateSectors(Head(chain), freeMap, 1)

(* Faulty variant of ByteToSector: the offset is reduced and looked up in
   the first header. *)
ByteToSectorInFirstHeader(chain, offset) ==
    Head(chain).dataSectors[((offset % MaxFileSize) \div SectorSize) + 1]

(* FileHeader::ByteToSector; dataSectors is numbered from 1 here.  It is
   called with offsets within the file, for which the next header exists
   when the offset reaches MaxFileSize. *)
RECURSIVE ByteToSector(_, _)
ByteToSector(chain, offset) ==
    IF offset >= MaxFileSize
    THEN ByteToSector(Tail(chain), offset - MaxFileSize)
    ELSE Head(chain).dataSectors[(offset \div SectorSize) + 1]

(* FileHeader::FileLength *)
RECURSIVE FileLength(_)
FileLength(chain) ==
    IF Len(chain) > 1
    THEN Head(chain).numBytes + FileLength(Tail(chain))
    ELSE Head(chain).numBytes

(* A header as WriteBack lays it out in its sector: numBytes, numSectors,
   nextFileHeaderSector and the first numSectors entries of dataSectors. *)
SectorImage(hdr) ==
    [numBytes |-> hdr.numBytes, numSectors |-> hdr.numSectors,
     nextFileHeaderSector |-> hdr.nextFileHeaderSector,
     dataSectors |-> SubSeq(hdr.dataSectors, 1, hdr.numSectors)]

(* FileHeader::WriteBack: each header of the chain goes to its sector. *)
RECURSIVE WriteBack(_, _, _)
WriteBack(sectors, chain, sector) ==
    LET written == [sectors EXCEPT ![sector] = SectorImage(Head(chain))]
    IN  IF Head(chain).nextFileHeaderSector # -1
        THEN WriteBack(written, Tail(chain),
                       Head(chain).nextFileHeaderSector)
        ELSE written

(* FileHeader::FetchFrom: the chain of header objects read from sector. *)
RECURSIVE FetchFrom(_, _)
FetchFrom(sectors, sector) ==
    LET image == sectors[sector]
        hdr == [numBytes |-> image.numBytes,
                numSectors |-> image.numSectors,
                nextFileHeaderSector |-> image.nextFileHeaderSector,
                dataSectors |->
                    [i \in 1..NumDirect |->
                        IF i <= image.numSectors THEN image.dataSectors[i]
                        ELSE 0]]
    IN  IF image.nextFileHeaderSector # -1
        THEN <<hdr>> \o FetchFrom(sectors, image.nextFileHeaderSector)
        ELSE <<hdr>>

----------------------------------------------------------------------------
(* directory.h: Directory, a table of NumDirEntries entries. *)

FreeEntry == [inUse |-> FALSE, isDir |-> FALSE, sector |-> 0, name |-> 0]
NewDirectory == [i \in 1..NumDirEntries |-> FreeEntry]

DirectoryFindIndex(table, name) ==
    IF \E i \in 1..Len(table) : table[i].inUse /\ table[i].name = name
    THEN CHOOSE i \in 1..Len(table) : table[i].inUse /\ table[i].name = name
    ELSE -1
DirectoryFind(table, name) ==
    IF DirectoryFindIndex(table, name) = -1 THEN -1
    ELSE table[DirectoryFindIndex(table, name)].sector
DirectoryIsDir(table, name) ==
    /\ DirectoryFindIndex(table, name) # -1
    /\ table[DirectoryFindIndex(table, name)].isDir
DirectoryHasRoom(table, name) ==
    /\ DirectoryFindIndex(table, name) = -1
    /\ \E i \in 1..Len(table) : ~table[i].inUse
DirectoryAdd(table, name, sector, isDir) ==
    IF ~DirectoryHasRoom(table, name) THEN table
    ELSE LET i == CHOOSE k \in 1..Len(table) :
                     /\ ~table[k].inUse
                     /\ \A j \in 1..(k - 1) : table[j].inUse
         IN  [table EXCEPT ![i] = [inUse |-> TRUE, isDir |-> isDir,
                                   sector |-> sector, name |-> name]]
DirectoryRemove(table, name) ==
    IF DirectoryFindIndex(table, name) = -1 THEN table
    ELSE [table EXCEPT ![DirectoryFindIndex(table, name)].inUse = FALSE]

----------------------------------------------------------------------------
(* filesys.cc: FileSystem.  disk.freeMap and disk.directory are the
   contents of the free-map file and of the root directory file, and
   disk.sectors[k] is the file header stored in sector k (NoHeader where
   none was written).  Paths name files of the root directory. *)

FreeMapSector == 0
DirectorySector == 1
BitsInByte == 8
FreeMapFileSize == NumSectors \div BitsInByte
DirectoryFileSize == DirEntrySize * NumDirEntries
Sectors == 0..(NumSectors - 1)
NoHeader == [numBytes |-> -1, numSectors |-> 0, nextFileHeaderSector |-> -1,
             dataSectors |-> <<>>]

(* The names and sizes of the files the tests create: an empty file, files
   of one header, and files that need two and three chained headers. *)
Names == 1..NNames
MaxSize == 2 * MaxFileSize + 1
Sizes == {0, SectorSize, MaxFileSize, MaxFileSize + 1, MaxSize}

(* FileSystem::FileSystem(TRUE): the freshly formatted disk. *)
Format ==
    LET marked == BitmapMark(BitmapMark({}, FreeMapSector), DirectorySector)
        mapHdr == Allocate(marked, FreeMapFileSize)
        dirHdr == Allocate(mapHdr.map, DirectoryFileSize)
        blank == [k \in Sectors |-> NoHeader]
    IN  [freeMap |-> dirHdr.map,
         directory |-> NewDirectory,
         sectors |-> WriteBack(WriteBack(blank, mapHdr.chain, FreeMapSector),
                               dirHdr.chain, DirectorySector)]

(* freeMap->WriteBack(freeMapFile) in Create. *)
CreateWritesFreeMap(d, freeMap) == [d EXCEPT !.freeMap = freeMap]

(* FileSystem::Create(path, initialSize, FALSE).  The event tells the name
   and size asked for, the value returned and FileLength() of the header
   Allocate built. *)
FileSystemCreateStep(s, name, initialSize) ==
    LET d == s.disk
        found == BitmapFindAndSet(d.freeMap, NumSectors)
        sector == found.which
        added == DirectoryAdd(d.directory, name, sector, FALSE)
        hdr == Allocate(found.map, initialSize)
        undone == Deallocate(hdr.chain, hdr.map)
        asked == [name |-> name, size |-> initialSize]
        failed == EventWith(s, "Create.return", s.currentThread, asked,
                            [success |-> FALSE, length |-> -1])
    IN  IF DirectoryFind(d.directory, name) # -1 THEN failed
        ELSE IF sector = -1 THEN failed
        ELSE IF ~DirectoryHasRoom(d.directory, name) THEN failed
        ELSE IF ~hdr.success
        THEN IF undone.ok THEN failed
             ELSE Fail(EventWith(s, "Create.abort", s.currentThread, asked,
                                 [success |-> FALSE, length |-> -1]),
                       "Deallocate: sector not marked")
        ELSE EventWith(
                [s EXCEPT !.disk =
                    CreateWritesFreeMap(
                       [d EXCEPT !.sectors = WriteBack(@, hdr.chain, sector),
                                 !.directory = added],
                       hdr.map)],
                "Create.return", s.currentThread, asked,
                [success |-> TRUE, length |-> FileLength(hdr.chain)])

(* hdr->ByteToSector(offset) on the header of the file name, fetched from
   the disk as Open does, for an offset within the size the file was
   created with.  The event tells the name and the offset, and the sector
   returned. *)
ByteToSectorStep(s, name, offset) ==
    LET sector == DirectoryFind(s.disk.directory, name)
        hdr == FetchFrom(s.disk.sectors, sector)
    IN  EventWith(s, "ByteToSector", s.currentThread,
                  [name |-> name, offset |-> offset],
                  ByteToSector(hdr, offset))

(* The headers of a removed file stay in their sectors, where nothing reads
   them again; the model blanks them. *)
RECURSIVE Forget(_, _)
Forget(sectors, sector) ==
    LET blanked == [sectors EXCEPT ![sector] = NoHeader]
    IN  IF sectors[sector].nextFileHeaderSector # -1
        THEN Forget(blanked, sectors[sector].nextFileHeaderSector)
        ELSE blanked

(* FileSystem::Remove(path) *)
FileSystemRemoveStep(s, name) ==
    LET d == s.disk
        sector == DirectoryFind(d.directory, name)
        fileHdr == FetchFrom(d.sectors, sector)
        freed == Deallocate(fileHdr, d.freeMap)
        asked == [name |-> name, size |-> 0]
    IN  IF sector = -1 \/ DirectoryIsDir(d.directory, name)
        THEN EventWith(s, "Remove.return", s.currentThread, asked,
                       [success |-> FALSE, length |-> -1])
        ELSE IF ~freed.ok
        THEN Fail(EventWith(s, "Remove.abort", s.currentThread, asked,
                            [success |-> FALSE, length |-> -1]),
                  "Deallocate: sector not marked")
        ELSE EventWith(
                [s EXCEPT !.disk =
                    [d EXCEPT
                        !.directory = DirectoryRemove(@, name),
                        !.freeMap = BitmapClear(freed.map, sector),
                        !.sectors = Forget(@, sector)]],
                "Remove.return", s.currentThread, asked,
                [success |-> TRUE, length |-> FileLength(fileHdr)])

----------------------------------------------------------------------------
(* machine.h: user memory, one byte per address; address 0 is the null
   pointer.  machine.mem[a + 1] is the byte at address a. *)

MemorySize(mem) == Len(mem)
ReadMem(mem, addr) == mem[addr + 1]
WriteMem(mem, addr, value) == [mem EXCEPT ![addr + 1] = value]
ValidAddress(mem, addr) == addr >= 0 /\ addr < MemorySize(mem)

(* The bytes at addr .. addr + n - 1. *)
Bytes(mem, addr, n) == [i \in 1..n |-> ReadMem(mem, addr + i - 1)]

----------------------------------------------------------------------------
(* kernel->fileSystem and OpenFile as the dispatcher uses them: Create(name)
   makes an empty file unless the name exists or the directory is full,
   Open(name) makes an OpenFile object positioned at 0 for a file that
   exists.  files.directory is the set of names, files.data[name] the
   contents of a file, at most FileCapacity bytes, and files.live the number
   of OpenFile objects created and not deleted. *)

FileNames ==
    UNION {[1..n -> 1..MaxByte] : n \in 1..MaxFileNameLength}
NoOpenFile == [name |-> <<>>, seekPosition |-> -1]
NewFileSystem ==
    [directory |-> {}, data |-> [name \in FileNames |-> <<>>], live |-> 0]

FsCanCreate(fs, name) ==
    /\ name \in FileNames
    /\ name \notin fs.directory
    /\ Cardinality(fs.directory) < NumDirEntries
FsCreate(fs, name) ==
    IF FsCanCreate(fs, name)
    THEN [fs EXCEPT !.directory = @ \cup {name}, !.data[name] = <<>>]
    ELSE fs
FsCanOpen(fs, name) == name \in fs.directory
NewOpenFile(name) == [name |-> name, seekPosition |-> 0]

(* OpenFile::Read(into, numBytes): the bytes read; the position moves past
   them. *)
OpenFileRead(fs, file, numBytes) ==
    LET data == fs.data[file.name]
        count == min(numBytes, Len(data) - file.seekPosition)
    IN  SubSeq(data, file.seekPosition + 1, file.seekPosition + count)

(* OpenFile::Write(from, numBytes): the number of bytes written, which stops
   at the capacity of the file, and the contents it leaves. *)
OpenFileWritten(file, numBytes) ==
    min(numBytes, FileCapacity - file.seekPosition)
OpenFileWrite(fs, file, from, numBytes) ==
    LET data == fs.data[file.name]
        count == OpenFileWritten(file, numBytes)
        last == file.seekPosition + count
    IN  [fs EXCEPT !.data[file.name] =
            SubSeq(data, 1, file.seekPosition) \o SubSeq(from, 1, count)
                \o SubSeq(data, last + 1, Len(data))]

----------------------------------------------------------------------------
(* thread.cc: the table of open files of a thread; its indices, the file
   descriptors, are 0 .. MaxNumUserOpenFiles - 1. *)

FileDescriptors == 0..(MaxNumUserOpenFiles - 1)

(* The table as Thread::Thread leaves it. *)
NewOpenFileTable ==
    [i \in FileDescriptors |-> [inUse |-> FALSE, openFile |-> NoOpenFile]]

(* Faulty variant of the search in AddOpenFileEntry: the highest free
   index. *)
LastFreeEntry(table) ==
    IF \E i \in FileDescriptors : ~table[i].inUse
    THEN CHOOSE i \in FileDescriptors :
            /\ ~table[i].inUse
            /\ \A j \in FileDescriptors : j > i => table[j].inUse
    ELSE -1

(* The loop of Thread::AddOpenFileEntry: the first entry not in use. *)
FirstFreeEntry(table) ==
    IF \E i \in FileDescriptors : ~table[i].inUse
    THEN CHOOSE i \in FileDescriptors :
            /\ ~table[i].inUse
            /\ \A j \in FileDescriptors : j < i => table[j].inUse
    ELSE -1

(* Thread::AddOpenFileEntry: the descriptor returned and the table. *)
AddOpenFileEntry(table, newOpenfile) ==
    LET i == FirstFreeEntry(table)
    IN  [fd |-> i,
         table |-> IF i = -1 THEN table
                   ELSE [table EXCEPT ![i] = [inUse |-> TRUE,
                                              openFile |-> newOpenfile]]]

(* Thread::RemoveOpenFileEntry: the value returned, the table, and whether
   an OpenFile object was deleted. *)
RemoveOpenFileEntry(table, fd) ==
    IF fd < 0 \/ fd >= MaxNumUserOpenFiles
    THEN [success |-> FALSE, table |-> table, deleted |-> FALSE]
    ELSE IF ~table[fd].inUse
    THEN [success |-> FALSE, table |-> table, deleted |-> FALSE]
    ELSE [success |-> TRUE,
          table |-> [table EXCEPT ![fd] = [inUse |-> FALSE,
                                           openFile |-> NoOpenFile]],
          deleted |-> table[fd].openFile # NoOpenFile]

(* Thread::GetOpenFileEntry: the OpenFile, or NoOpenFile for NULL. *)
GetOpenFileEntry(table, fd) ==
    IF fd < 0 \/ fd >= MaxNumUserOpenFiles THEN NoOpenFile
    ELSE IF ~table[fd].inUse THEN NoOpenFile
    ELSE table[fd].openFile

----------------------------------------------------------------------------
(* exception.cc: the system call dispatcher.  machine.r2 is register 2,
   where a system call leaves its result.  The event of a system call tells
   its arguments (registers 4, 5 and 6) and, for Write, whether
   OpenFile::Write was called and with which bytes. *)

RECURSIVE ReadStringLoop(_, _, _, _, _)
ReadStringLoop(mem, addr, limit, i, buf) ==
    IF ~(addr > 0 /\ limit > 0) THEN buf
    ELSE IF limit > 0 /\ i >= limit THEN buf
    ELSE IF ReadMem(mem, addr + i) = 0 THEN buf
    ELSE ReadStringLoop(mem, addr, limit, i + 1,
                        Append(buf, ReadMem(mem, addr + i)))

(* ReadStringFromUserAddrSpace: the value returned and the string read. *)
ReadStringFromUserAddrSpace(mem, addr, limit) ==
    LET buf == ReadStringLoop(mem, addr, limit, 0, <<>>)
    IN  [bufSize |-> IF addr = 0 \/ limit <= 0 THEN -1 ELSE Len(buf),
         buf |-> buf]

RECURSIVE WriteCharsLoop(_, _, _, _, _)
WriteCharsLoop(mem, addr, buf, limit, bufSize) ==
    IF bufSize >= limit THEN [bufSize |-> bufSize, mem |-> mem]
    ELSE IF ~ValidAddress(mem, addr + bufSize)
    THEN [bufSize |-> bufSize, mem |-> mem]
    ELSE WriteCharsLoop(WriteMem(mem, addr + bufSize, buf[bufSize + 1]),
                        addr, buf, limit, bufSize + 1)

(* WriteCharsToUserAddrSpace: the value returned and the memory. *)
WriteCharsToUserAddrSpace(mem, addr, buf, limit) ==
    IF limit <= 0 THEN [bufSize |-> -1, mem |-> mem]
    ELSE WriteCharsLoop(mem, addr, buf, limit, 0)

WriteRegister2(s, value) == [s EXCEPT !.machine.r2 = value]

Syscall(s, type, r4, r5, r6) ==
    EventWith(s, type, s.currentThread, [r4 |-> r4, r5 |-> r5, r6 |-> r6],
              [called |-> FALSE, passed |-> <<>>])

(* Faulty variant of the result of SC_Create: 0 whatever Create
   returned. *)
CreateResultIgnored(success) == 0

(* The value SC_Create leaves in register 2 after FileSystem::Create. *)
CreateResult(success) == IF success THEN 0 ELSE -1

(* case SC_Create *)
SyscallCreateStep(s, arg1) ==
    LET name == ReadStringFromUserAddrSpace(s.machine.mem, arg1,
                                            MaxFileNameLength)
        done == Syscall(s, "SC_Create", arg1, 0, 0)
    IN  IF arg1 < 0 THEN Fail(s, "ReadStringFromUserAddrSpace: addr < 0")
        ELSE IF name.bufSize <= 0 THEN WriteRegister2(done, -1)
        ELSE WriteRegister2([done EXCEPT !.files = FsCreate(@, name.buf)],
                            CreateResult(FsCanCreate(s.files, name.buf)))

(* Faulty variant of the full-table branch of SC_Open: the OpenFile object
   is not deleted. *)
OpenKeepsOpenFile(s) == s

(* delete openFilePtr in SC_Open. *)
OpenDeletesOpenFile(s) == [s EXCEPT !.files.live = @ - 1]

(* case SC_Open *)
SyscallOpenStep(s, arg1) ==
    LET t == s.currentThread
        name == ReadStringFromUserAddrSpace(s.machine.mem, arg1,
                                            MaxFileNameLength)
        done == Syscall(s, "SC_Open", arg1, 0, 0)
        opened == [done EXCEPT !.files.live = @ + 1]
        added == AddOpenFileEntry(s.openFileTable[t], NewOpenFile(name.buf))
    IN  IF arg1 < 0 THEN Fail(s, "ReadStringFromUserAddrSpace: addr < 0")
        ELSE IF name.bufSize <= 0 THEN WriteRegister2(done, -1)
        ELSE IF ~FsCanOpen(s.files, name.buf) THEN WriteRegister2(done, -1)
        ELSE IF added.fd = -1
        THEN WriteRegister2(OpenDeletesOpenFile(opened), -1)
        ELSE WriteRegister2([opened EXCEPT !.openFileTable[t] = added.table],
                            added.fd)

(* Faulty variant of the result of SC_Read and SC_Write for a descriptor
   that is not open: 0. *)
IllegalFdAccepted(userFd) == 0

(* The value SC_Read and SC_Write leave in register 2 for a descriptor that
   is not open. *)
IllegalFdResult(userFd) == -1

(* case SC_Read *)
SyscallReadStep(s, arg1, bufSize, userFd) ==
    LET t == s.currentThread
        openFilePtr == GetOpenFileEntry(s.openFileTable[t], userFd)
        buf == OpenFileRead(s.files, openFilePtr, bufSize)
        copied == WriteCharsToUserAddrSpace(s.machine.mem, arg1, buf,
                                            Len(buf))
        done == Syscall(s, "SC_Read", arg1, bufSize, userFd)
    IN  IF openFilePtr = NoOpenFile
        THEN WriteRegister2(done, IllegalFdResult(userFd))
        ELSE IF bufSize <= 0 THEN WriteRegister2(done, -1)
        ELSE IF Len(buf) <= 0 THEN WriteRegister2(done, -1)
        ELSE IF arg1 < 0
        THEN Fail(s, "WriteCharsToUserAddrSpace: addr < 0")
        ELSE WriteRegister2(
                [done EXCEPT
                    !.openFileTable[t][userFd].openFile.seekPosition =
                        @ + Len(buf),
                    !.machine.mem = copied.mem],
                copied.bufSize)

(* case SC_Write *)
SyscallWriteStep(s, arg1, bufSize, userFd) ==
    LET t == s.currentThread
        openFilePtr == GetOpenFileEntry(s.openFileTable[t], userFd)
        buf == ReadStringFromUserAddrSpace(s.machine.mem, arg1, bufSize)
        numBytesRW == OpenFileWritten(openFilePtr, buf.bufSize)
        done == Syscall(s, "SC_Write", arg1, bufSize, userFd)
    IN  IF openFilePtr = NoOpenFile
        THEN WriteRegister2(done, IllegalFdResult(userFd))
        ELSE IF bufSize < 0 THEN WriteRegister2(done, -1)
        ELSE IF arg1 < 0
        THEN Fail(s, "ReadStringFromUserAddrSpace: addr < 0")
        ELSE IF buf.bufSize <= 0 THEN WriteRegister2(done, -1)
        ELSE WriteRegister2(
                [done EXCEPT
                    !.files = OpenFileWrite(@, openFilePtr, buf.buf,
                                            buf.bufSize),
                    !.openFileTable[t][userFd].openFile.seekPosition =
                        @ + numBytesRW,
                    !.ev.arg = [called |-> TRUE, passed |-> buf.buf]],
                numBytesRW)

(* case SC_Close *)
SyscallCloseStep(s, arg1) ==
    LET t == s.currentThread
        removed == RemoveOpenFileEntry(s.openFileTable[t], arg1)
        done == Syscall(s, "SC_Close", arg1, 0, 0)
    IN  [done EXCEPT !.openFileTable[t] = removed.table,
                     !.files.live = IF removed.deleted THEN @ - 1 ELSE @]

----------------------------------------------------------------------------
(* The forked procedure of a thread: it calls the operations of prog in
   turn; ThreadRoot calls Finish when it returns.  The main thread's
   procedure is the test program itself. *)
UserStep(s) ==
    LET t == s.currentThread
        f == TopOf(s, t)
        i == f.obj
    IN  IF i <= Len(s.prog[t])
        THEN Push([s EXCEPT !.stack[t][Len(s.stack[t])].obj = i + 1], t,
                  Frame(s.prog[t][i].op, s.prog[t][i].obj, s.prog[t][i].aux))
        ELSE Push(s, t, Frame("Finish", 0, 0))

UserCanStep(s) ==
    LET t == s.currentThread
    IN  TopOf(s, t).obj <= Len(s.prog[t]) \/ t # MainThread

----------------------------------------------------------------------------
(* The user program of the system call tests.  Its memory holds the strings
   <<1, 2, 1>> at address 1, longer than a file name, <<2, 1>> at 2, <<1>>
   at 3 and the empty string at 4; address 0 is the null pointer.  Read
   copies into the buffer at address 5.  Write takes its bytes at address 3
   or 4: the byte at 4 is 0. *)
UserMemory == <<0, 1, 2, 1, 0, 0, 0>>
NameAddresses == 0..4
ReadBuffer == 5
WriteBuffers == {3, 4}
Lengths == -1..1
UserFds == -1..MaxNumUserOpenFiles

(* The actions. *)

Clear(s) == [s EXCEPT !.ev = NoEvent]

User == Executing("User") /\ UserCanStep(S) /\ Commit(UserStep(Clear(S)))
ThreadBegin == Executing("Begin") /\ Commit(BeginStep(Clear(S)))
ThreadYield == Executing("Yield") /\ Commit(YieldStep(Clear(S)))
ThreadSleep ==
    /\ Executing("Sleep")
    /\ Idle(S) => readyList # <<>>
    /\ Commit(SleepStep(Clear(S)))
ThreadFork == Executing("Fork") /\ Commit(ForkStep(Clear(S)))
SchedulerSetSleep == Executing("SetSleep") /\ Commit(SetSleepStep(Clear(S)))
SemaphoreP == Executing("P") /\ Commit(SemaphorePStep(Clear(S)))
SemaphoreV == Executing("V") /\ Commit(SemaphoreVStep(Clear(S)))
LockAcquire == Executing("Acquire") /\ Commit(LockAcquireStep(Clear(S)))
LockRelease == Executing("Release") /\ Commit(LockReleaseStep(Clear(S)))
ConditionWait == Executing("Wait") /\ Commit(ConditionWaitStep(Clear(S)))
ConditionSignal == Executing("Signal") /\ Commit(ConditionSignalStep(Clear(S)))
ConditionBroadcast ==
    Executing("Broadcast") /\ Commit(ConditionBroadcastStep(Clear(S)))
MailboxSend == Executing("Send") /\ Commit(MailboxSendStep(Clear(S)))
MailboxReceive == Executing("Receive") /\ Commit(MailboxReceiveStep(Clear(S)))
ThreadFinish == Executing("Finish") /\ Commit(FinishStep(Clear(S)))
ThreadJoin == Executing("Join") /\ Commit(JoinStep(Clear(S)))
FrameManagerAcquire ==
    Executing("FrameAcquire") /\ Commit(FrameManagerAcquireStep(Clear(S)))
FrameManagerRelease ==
    Executing("FrameRelease") /\ Commit(FrameManagerReleaseStep(Clear(S)))
FrameManagerGetNumAvailFrames ==
    /\ Executing("GetNumAvailFrames")
    /\ Commit(FrameManagerGetNumAvailFramesStep(Clear(S)))
SchedulerDonatePriority ==
    /\ Executing("DonatePriority")
    /\ Len(stack[currentThread]) <= MaxCallDepth
    /\ Commit(DonatePriorityStep(Clear(S)))
ThreadSetEffectivePriority ==
    /\ Executing("setEffectivePriority")
    /\ Len(stack[currentThread]) <= MaxCallDepth
    /\ Commit(setEffectivePriorityStep(Clear(S)))
MachineTranslate ==
    /\ Executing("Translate")
    /\ \E ticks \in {0, 1} : Commit(TranslateStep(Clear(S), ticks))
CoreMapManagerPushEntryToTLB ==
    /\ Executing("PushEntryToTLB")
    /\ \E ub \in UndefinedOutcomes : Commit(PushEntryToTLBStep(Clear(S), ub))
FileSystemCreate ==
    /\ abort = ""
    /\ \E name \in Names, initialSize \in Sizes :
          Commit(FileSystemCreateStep(S, name, initialSize))
FileSystemRemove ==
    /\ abort = ""
    /\ \E name \in Names : Commit(FileSystemRemoveStep(S, name))
FileHeaderByteToSector ==
    /\ abort = ""
    /\ \E name \in Names :
          /\ DirectoryFind(disk.directory, name) # -1
          /\ \E offset \in 0..(MaxSize - 1) :
                /\ offset < disk.sectors[DirectoryFind(disk.directory,
                                                       name)].numBytes
                /\ Commit(ByteToSectorStep(S, name, offset))
SyscallCreate ==
    /\ abort = ""
    /\ \E arg1 \in NameAddresses : Commit(SyscallCreateStep(S, arg1))
SyscallOpen ==
    /\ abort = ""
    /\ \E arg1 \in NameAddresses : Commit(SyscallOpenStep(S, arg1))
SyscallRead ==
    /\ abort = ""
    /\ \E bufSize \in Lengths, userFd \in UserFds :
          Commit(SyscallReadStep(S, ReadBuffer, bufSize, userFd))
SyscallWrite ==
    /\ abort = ""
    /\ \E arg1 \in WriteBuffers, bufSize \in Lengths, userFd \in UserFds :
          Commit(SyscallWriteStep(S, arg1, bufSize, userFd))
SyscallClose ==
    /\ abort = ""
    /\ \E arg1 \in UserFds : Commit(SyscallCloseStep(S, arg1))
TimerInterrupt ==
    /\ abort = ""
    /\ stack[currentThread] # <<>>
    /\ IF Idle(S) THEN sleepList # <<>> ELSE level = "IntOn"
    /\ \E yield \in BOOLEAN :
          /\ yield => hist.preemptions < MaxPreemptions
          /\ LET s == TimerStep(S, yield)
             IN  Commit(IF s = S THEN S ELSE Clear(s))

----------------------------------------------------------------------------
(* Construction. *)

Op(op, obj, aux) == [op |-> op, obj |-> obj, aux |-> aux]

(* Thread::Thread *)
NewThread(priority, isJoinable) ==
    [status |-> "JUST_CREATED", priority |-> Clamp(priority),
     donatedPriority |-> 0, isDonated |-> FALSE,
     desiredJoin |-> NoThread, desiredLock |-> NoLock,
     burstTime |-> InitialBurstTime, startTicks |-> 0,
     isJoinable |-> isJoinable, joinCalled |-> FALSE,
     finishCalled |-> FALSE, forkCalled |-> FALSE,
     readyToFinish |-> FALSE, deleted |-> FALSE]

SchedulerConfigs ==
    {c \in [type : {"RR", "FCFS", "Priority", "SJF"}, preemptive : BOOLEAN] :
        ~(c.preemptive /\ c.type = "FCFS")}

HistInit(v0) ==
    [v0 |-> v0,
     nP |-> [x \in DOMAIN v0 |-> 0], nV |-> [x \in DOMAIN v0 |-> 0],
     pBlocked |-> [x \in DOMAIN v0 |-> <<>>],
     pReturned |-> [x \in DOMAIN v0 |-> <<>>],
     semArrival |-> [x \in DOMAIN v0 |-> <<>>],
     holds |-> [x \in Locks |-> {}],
     acquired |-> [x \in Locks |-> {}],
     readied |-> [x \in Locks |-> {}],
     signalled |-> {},
     arrival |-> [x \in Conds |-> <<>>],
     sent |-> <<>>, received |-> <<>>,
     finishing |-> {},
     sleepAsked |-> [t \in Threads |-> 0],
     sleepTicks |-> [t \in Threads |-> 0],
     preemptions |-> 0,
     madeReady |-> <<>>, inserted |-> <<>>,
     tlbUses |-> <<>>]

(* Scheduler::Scheduler: the assertion it fails, if any. *)
SchedulerScheduler(cfg) ==
    IF cfg.preemptive /\ cfg.type = "FCFS"
    THEN "Scheduler: preemptive FCFS" ELSE ""

(* The kernel after Initialize: the main thread runs the test program prg[1];
   the other thread objects are created and not yet forked. *)
BootThreads(T, cfg, prio, joinable, v0, prg) ==
    /\ schedulerType = cfg.type
    /\ isPreemptive = cfg.preemptive
    /\ threads = [t \in T |->
                    IF t = MainThread
                    THEN [NewThread(prio[t], FALSE) EXCEPT
                             !.status = "RUNNING"]
                    ELSE NewThread(prio[t], joinable[t])]
    /\ readyList = <<>>
    /\ sleepList = <<>>
    /\ currentThread = MainThread
    /\ toBeDestroyed = NoThread
    /\ level = "IntOn"
    /\ userTicks = 0
    /\ sems = [x \in DOMAIN v0 |-> [value |-> v0[x], queue |-> <<>>]]
    /\ locks = [x \in Locks |->
                  [locked |-> FALSE, lockHolder |-> NoThread,
                   waitQueue |-> <<>>]]
    /\ conds = [x \in Conds |-> <<>>]
    /\ mbox = [buffer |-> 0, bufferWritable |-> TRUE, numRecvCalled |-> 0]
    /\ stack = [t \in T |->
                  IF t = MainThread
                  THEN <<[Frame("User", 1, 0) EXCEPT !.pc = "run"]>>
                  ELSE <<>>]
    /\ prog = prg
    /\ abort = SchedulerScheduler(cfg)
    /\ ev = NoEvent
    /\ hist = [HistInit(v0) EXCEPT !.sleepAsked = [t \in T |-> 0],
                                   !.sleepTicks = [t \in T |-> 0]]
    /\ frameManager = NewFrameManager
    /\ disk = Format
    /\ machine = [r2 |-> 0, mem |-> UserMemory, tlb |-> NewTLB,
                  lastUsed |-> NewLastUsed, totalTicks |-> 0]
    /\ openFileTable = [t \in T |-> NewOpenFileTable]
    /\ files = NewFileSystem
    /\ paging = NewCoreMapManager

Boot(cfg, prio, joinable, v0, prg) ==
    BootThreads(Threads, cfg, prio, joinable, v0, prg)

Workers == Threads \ {MainThread}
ForkAll == [i \in 1..(NThreads - 1) |-> Op("Fork", i + 1, 0)]
NotJoinable == [t \in Threads |-> FALSE]

----------------------------------------------------------------------------
(* Semaphores and conditions.  The main thread forks the other threads.  In
   a semaphore run every thread calls P, V, Yield and SetSleep on one
   semaphore; in a condition run the threads Wait, Signal and Broadcast on
   one condition under one lock. *)

Rising == [t \in Threads |-> IF t < 7 THEN t ELSE 7]
Falling == [t \in Threads |-> IF t < 7 THEN 7 - t ELSE 0]
SamePriority == [t \in Threads |-> 3]
NoSemValue == [x \in Sems |-> 0]

SemPrograms ==
    {<<Op("P", 1, 0), Op("V", 1, 0)>>,
     <<Op("V", 1, 0), Op("P", 1, 0)>>,
     <<Op("SetSleep", 1, 0), Op("P", 1, 0)>>}

SemMainPrograms ==
    {ForkAll \o <<Op("V", 1, 0), Op("Yield", 0, 0), Op("V", 1, 0),
                  Op("Finish", 0, 0)>>,
     ForkAll \o <<Op("Yield", 0, 0), Op("V", 1, 0), Op("V", 1, 0),
                  Op("Finish", 0, 0)>>}

InitSem ==
    \E cfg \in SchedulerConfigs, prio \in {Rising, Falling},
       v0 \in [Sems -> 0..MaxSemInit], w \in [Workers -> SemPrograms],
       m \in SemMainPrograms :
        Boot(cfg, prio, NotJoinable, v0,
             [t \in Threads |-> IF t = MainThread THEN m ELSE w[t]])

Waiter == <<Op("Acquire", 1, 0), Op("Wait", 1, 1), Op("Release", 1, 0)>>
Signaller == <<Op("Acquire", 1, 0), Op("Signal", 1, 1), Op("Release", 1, 0)>>
Broadcaster ==
    <<Op("Acquire", 1, 0), Op("Broadcast", 1, 1), Op("Release", 1, 0)>>

CondMainPrograms ==
    {ForkAll \o Broadcaster \o <<Op("Finish", 0, 0)>>,
     <<Op("Acquire", 1, 0)>> \o ForkAll
        \o <<Op("Wait", 1, 1), Op("Release", 1, 0), Op("Finish", 0, 0)>>}

InitCond ==
    \E cfg \in SchedulerConfigs, prio \in {Rising, Falling},
       w \in [Workers -> {Waiter, Signaller, Broadcaster}],
       m \in CondMainPrograms :
        Boot(cfg, prio, NotJoinable, NoSemValue,
             [t \in Threads |-> IF t = MainThread THEN m ELSE w[t]])

InitSync == InitSem \/ InitCond

NextSync ==
    \/ User \/ ThreadBegin \/ ThreadYield \/ ThreadSleep \/ ThreadFork
    \/ ThreadFinish \/ SchedulerSetSleep \/ TimerInterrupt
    \/ SemaphoreP \/ SemaphoreV
    \/ LockAcquire \/ LockRelease
    \/ ConditionWait \/ ConditionSignal \/ ConditionBroadcast

SpecSync == InitSync /\ [][NextSync]_vars

----------------------------------------------------------------------------
(* Locks and priority donation.  Three test programs:
   - contention: every thread takes lock 1, yields inside the critical
     section and releases it;
   - donation: L (the main thread, priority 1) takes lock 1 and forks H
     (priority 6), which takes the same lock, and M (priority 3), which only
     yields;
   - chain: C (the main thread, priority 1) takes lock 1 and forks B
     (priority 3), which takes lock 2 and then lock 1, and A (priority 6),
     which takes lock 2;
   - sleeper: the main thread (priority 1) forks X (priority 6), which
     takes lock 1 and sleeps on the timer with it, yields twice and then
     takes lock 1 itself. *)

Critical == <<Op("Acquire", 1, 0), Op("Yield", 0, 0), Op("Release", 1, 0)>>

ContentionPrograms ==
    {[t \in Threads |->
        IF t = MainThread
        THEN <<Op("Acquire", 1, 0)>> \o ForkAll
                \o <<Op("Yield", 0, 0), Op("Release", 1, 0),
                     Op("Finish", 0, 0)>>
        ELSE Critical],
     [t \in Threads |->
        IF t = MainThread
        THEN ForkAll \o <<Op("Yield", 0, 0)>> \o Critical
                \o <<Op("Finish", 0, 0)>>
        ELSE Critical]}

DonationPriority ==
    [t \in Threads |-> IF t = MainThread THEN 1 ELSE IF t = 2 THEN 6 ELSE 3]

DonationProgram ==
    [t \in Threads |->
        IF t = MainThread
        THEN <<Op("Acquire", 1, 0), Op("Fork", 2, 0), Op("Fork", 3, 0),
               Op("Release", 1, 0), Op("Finish", 0, 0)>>
        ELSE IF t = 2 THEN <<Op("Acquire", 1, 0), Op("Release", 1, 0)>>
        ELSE <<Op("Yield", 0, 0)>>]

ChainPriority ==
    [t \in Threads |-> IF t = MainThread THEN 1 ELSE IF t = 2 THEN 3 ELSE 6]

ChainProgram ==
    [t \in Threads |->
        IF t = MainThread
        THEN <<Op("Acquire", 1, 0), Op("Fork", 2, 0), Op("Fork", 3, 0),
               Op("Yield", 0, 0), Op("Release", 1, 0), Op("Finish", 0, 0)>>
        ELSE IF t = 2
        THEN <<Op("Acquire", 2, 0), Op("Acquire", 1, 0),
               Op("Release", 1, 0), Op("Release", 2, 0)>>
        ELSE <<Op("Acquire", 2, 0), Op("Release", 2, 0)>>]

SleeperProgram ==
    [t \in Threads |->
        IF t = MainThread
        THEN <<Op("Fork", 2, 0), Op("Yield", 0, 0), Op("Fork", 3, 0),
               Op("Yield", 0, 0), Op("Acquire", 1, 0), Op("Release", 1, 0),
               Op("Finish", 0, 0)>>
        ELSE IF t = 2
        THEN <<Op("Acquire", 1, 0), Op("SetSleep", MaxSleep, 0),
               Op("Release", 1, 0)>>
        ELSE <<>>]

InitLock ==
    \E cfg \in SchedulerConfigs :
        \/ \E prio \in {Rising, Falling}, prg \in ContentionPrograms :
              Boot(cfg, prio, NotJoinable, NoSemValue, prg)
        \/ Boot(cfg, DonationPriority, NotJoinable, NoSemValue,
                DonationProgram)
        \/ Boot(cfg, ChainPriority, NotJoinable, NoSemValue, ChainProgram)
        \/ Boot(cfg, DonationPriority, NotJoinable, NoSemValue,
                SleeperProgram)

NextLock ==
    \/ User \/ ThreadBegin \/ ThreadYield \/ ThreadSleep \/ ThreadFork
    \/ ThreadFinish \/ SchedulerSetSleep \/ TimerInterrupt
    \/ LockAcquire \/ LockRelease

SpecLock == InitLock /\ [][NextLock]_vars

----------------------------------------------------------------------------
(* Join and Finish.  Thread 2 is joinable; it is joined by the main thread,
   before or after a Yield, or by thread 3. *)

JoinPrograms ==
    {[t \in Threads |->
        IF t = MainThread
        THEN <<Op("Fork", 2, 0), Op("Join", 2, 0), Op("Finish", 0, 0)>>
        ELSE <<>>],
     [t \in Threads |->
        IF t = MainThread
        THEN <<Op("Fork", 2, 0), Op("Yield", 0, 0), Op("Join", 2, 0),
               Op("Finish", 0, 0)>>
        ELSE <<>>],
     [t \in Threads |->
        IF t = MainThread
        THEN <<Op("Fork", 2, 0), Op("Fork", 3, 0), Op("Yield", 0, 0),
               Op("Finish", 0, 0)>>
        ELSE IF t = 3 THEN <<Op("Join", 2, 0)>>
        ELSE <<>>]}

JoinableProcedures == {<<>>, <<Op("Yield", 0, 0)>>}

InitJoin ==
    \E cfg \in SchedulerConfigs, prio \in {Rising, Falling},
       prg \in JoinPrograms, proc \in JoinableProcedures :
        Boot(cfg, prio, [t \in Threads |-> t = 2], NoSemValue,
             [prg EXCEPT ![2] = proc])

NextJoin ==
    \/ User \/ ThreadBegin \/ ThreadYield \/ ThreadSleep \/ ThreadFork
    \/ ThreadFinish \/ ThreadJoin \/ TimerInterrupt
    \/ LockAcquire \/ LockRelease
    \/ ConditionWait \/ ConditionSignal

SpecJoin == InitJoin /\ [][NextJoin]_vars

(* Fair scheduling: the simulator keeps executing while a thread can run. *)
FairJoin == SpecJoin /\ WF_vars(NextJoin)

----------------------------------------------------------------------------
(* The mailbox.  Every thread calls Send once, with a message of its own,
   or Receive once or twice. *)

MailboxPrograms(t) ==
    {<<Op("Send", t, 0)>>,
     <<Op("Receive", 0, 0)>>,
     <<Op("Receive", 0, 0), Op("Receive", 0, 0)>>}

InitMailbox ==
    \E cfg \in SchedulerConfigs, prio \in {Rising, Falling},
       w \in [Threads -> UNION {MailboxPrograms(t) : t \in Threads}] :
        /\ \A t \in Threads : w[t] \in MailboxPrograms(t)
        /\ Len(w[MainThread]) = 1
        /\ Boot(cfg, prio, NotJoinable, NoSemValue,
                [t \in Threads |->
                    IF t = MainThread
                    THEN ForkAll \o w[t] \o <<Op("Finish", 0, 0)>>
                    ELSE w[t]])

NextMailbox ==
    \/ User \/ ThreadBegin \/ ThreadYield \/ ThreadSleep \/ ThreadFork
    \/ ThreadFinish \/ TimerInterrupt
    \/ LockAcquire \/ LockRelease
    \/ ConditionWait \/ ConditionSignal
    \/ MailboxSend \/ MailboxReceive

SpecMailbox == InitMailbox /\ [][NextMailbox]_vars

----------------------------------------------------------------------------
(* The mailbox exchange.  Of the 2 * NPairs threads as many call Send once,
   with a message of their own, as call Receive once; the others call
   nothing.  The main thread forks the others before its own call.  No
   timer interrupt: the threads switch where the calls block or yield. *)

ExchangeRoles ==
    {r \in [PairThreads -> {"Send", "Receive", "none"}] :
        /\ Cardinality({t \in PairThreads : r[t] = "Send"})
              = Cardinality({t \in PairThreads : r[t] = "Receive"})
        /\ \E t \in PairThreads : r[t] = "Send"}

ExchangeProgram(r) ==
    [t \in PairThreads |->
        (IF t = MainThread
         THEN [i \in 1..(2 * NPairs - 1) |-> Op("Fork", i + 1, 0)]
         ELSE <<>>)
        \o (IF r[t] = "none" THEN <<>>
            ELSE <<Op(r[t], IF r[t] = "Send" THEN t ELSE 0, 0)>>)
        \o (IF t = MainThread THEN <<Op("Finish", 0, 0)>> ELSE <<>>)]

InitExchange ==
    \E cfg \in SchedulerConfigs, r \in ExchangeRoles,
       prio \in {[t \in PairThreads |-> t], [t \in PairThreads |-> 7 - t]} :
        BootThreads(PairThreads, cfg, prio, [t \in PairThreads |-> FALSE],
                    NoSemValue, ExchangeProgram(r))

NextExchange ==
    \/ User \/ ThreadBegin \/ ThreadYield \/ ThreadSleep \/ ThreadFork
    \/ ThreadFinish
    \/ LockAcquire \/ LockRelease
    \/ ConditionWait \/ ConditionSignal
    \/ MailboxSend \/ MailboxReceive

SpecExchange == InitExchange /\ [][NextExchange]_vars

(* Fair scheduling: the simulator keeps executing while a thread can run. *)
FairExchange == SpecExchange /\ WF_vars(NextExchange)

----------------------------------------------------------------------------
(* Semaphore::SelfTest.  The semaphore tested, of value 0, is Pong; the test
   creates Ping with value 0 and forks the helper, thread 2, which runs
   SelfTestHelper; the timer may preempt either. *)

Rounds == 10
Ping == 1
Pong == 2

SelfTestHelper ==
    [i \in 1..(2 * Rounds) |->
        IF i % 2 = 1 THEN Op("P", Ping, 0) ELSE Op("V", Pong, 0)]

SemaphoreSelfTest ==
    <<Op("Fork", 2, 0)>> \o
    [i \in 1..(2 * Rounds) |->
        IF i % 2 = 1 THEN Op("V", Ping, 0) ELSE Op("P", Pong, 0)]

InitPingPong ==
    \E cfg \in SchedulerConfigs, prio \in {Rising, Falling, SamePriority} :
        Boot(cfg, prio, NotJoinable, [x \in {Ping, Pong} |-> 0],
             [t \in Threads |->
                IF t = MainThread THEN SemaphoreSelfTest
                ELSE IF t = 2 THEN SelfTestHelper ELSE <<>>])

NextPingPong ==
    \/ User \/ ThreadBegin \/ ThreadYield \/ ThreadSleep \/ ThreadFork
    \/ ThreadFinish \/ SemaphoreP \/ SemaphoreV \/ TimerInterrupt

SpecPingPong == InitPingPong /\ [][NextPingPong]_vars

(* Fair scheduling: the simulator keeps executing while a thread can run. *)
FairPingPong == SpecPingPong /\ WF_vars(NextPingPong)

----------------------------------------------------------------------------
(* The frame manager.  Every thread acquires a frame, keeps it across a
   Yield and releases it, or asks for the number of free frames first; with
   fewer frames than threads some Acquire finds no frame. *)

FramePrograms ==
    {<<Op("FrameAcquire", 0, 0), Op("Yield", 0, 0),
       Op("FrameRelease", 0, 0)>>,
     <<Op("GetNumAvailFrames", 0, 0), Op("FrameAcquire", 0, 0),
       Op("FrameRelease", 0, 0)>>}

InitFrame ==
    \E cfg \in SchedulerConfigs, body \in [Threads -> FramePrograms] :
        Boot(cfg, Rising, NotJoinable, NoSemValue,
             [t \in Threads |->
                IF t = MainThread
                THEN ForkAll \o body[t] \o <<Op("Finish", 0, 0)>>
                ELSE body[t]])

NextFrame ==
    \/ User \/ ThreadBegin \/ ThreadYield \/ ThreadSleep \/ ThreadFork
    \/ ThreadFinish \/ TimerInterrupt \/ LockAcquire \/ LockRelease
    \/ FrameManagerAcquire \/ FrameManagerRelease
    \/ FrameManagerGetNumAvailFrames

SpecFrame == InitFrame /\ [][NextFrame]_vars

----------------------------------------------------------------------------
(* The file system.  On the formatted disk the kernel creates and removes
   files of the root directory, of every size up to one that needs three
   chained headers. *)

InitFileSys ==
    Boot([type |-> "FCFS", preemptive |-> FALSE], Rising, NotJoinable,
         NoSemValue, [t \in Threads |-> <<>>])

NextFileSys == FileSystemCreate \/ FileSystemRemove

SpecFileSys == InitFileSys /\ [][NextFileSys]_vars

(* The same, and the kernel asks for the sector of every byte of the files
   on the disk. *)
NextByteToSector ==
    FileSystemCreate \/ FileSystemRemove \/ FileHeaderByteToSector

SpecByteToSector == InitFileSys /\ [][NextByteToSector]_vars

----------------------------------------------------------------------------
(* The system calls of one user program, in any order and with any of the
   arguments above. *)

InitSyscall ==
    Boot([type |-> "FCFS", preemptive |-> FALSE], Rising, NotJoinable,
         NoSemValue, [t \in Threads |-> <<>>])

NextSyscall ==
    \/ SyscallCreate \/ SyscallOpen \/ SyscallRead \/ SyscallWrite
    \/ SyscallClose

SpecSyscall == InitSyscall /\ [][NextSyscall]_vars

----------------------------------------------------------------------------
(* Timed sleep.  The main thread forks the others and sleeps or finishes;
   each of the others sleeps once or twice, for 1 to MaxSleep ticks. *)

SleepPrograms ==
    {<<Op("SetSleep", n, 0)>> : n \in 1..MaxSleep}
        \cup {<<Op("SetSleep", 1, 0), Op("SetSleep", n, 0)>> :
                 n \in 1..MaxSleep}

InitSleep ==
    \E cfg \in SchedulerConfigs, body \in [Workers -> SleepPrograms],
       last \in {<<Op("Finish", 0, 0)>>,
                 <<Op("SetSleep", 1, 0), Op("Finish", 0, 0)>>} :
        Boot(cfg, Rising, NotJoinable, NoSemValue,
             [t \in Threads |->
                IF t = MainThread THEN ForkAll \o last ELSE body[t]])

NextSleep ==
    \/ User \/ ThreadBegin \/ ThreadYield \/ ThreadSleep \/ ThreadFork
    \/ ThreadFinish \/ SchedulerSetSleep \/ TimerInterrupt

SpecSleep == InitSleep /\ [][NextSleep]_vars

----------------------------------------------------------------------------
(* Contract violations.  The scheduler is constructed with any type and
   preemption setting; every thread runs one of the programs below, some of
   which release a lock they do not hold, acquire a lock twice, call
   Thread::Sleep with interrupts on, or sleep for no time.  There is no
   timer, so that every step is a step of the call on top of the current
   thread's stack. *)

AllSchedulerConfigs ==
    [type : {"RR", "FCFS", "Priority", "SJF"}, preemptive : BOOLEAN]

ContractPrograms ==
    {<<Op("Acquire", 1, 0), Op("Yield", 0, 0), Op("Release", 1, 0)>>,
     <<Op("Release", 1, 0)>>,
     <<Op("Acquire", 1, 0), Op("Acquire", 1, 0)>>,
     <<Op("Yield", 0, 0), Op("Sleep", 0, FALSE)>>,
     <<Op("SetSleep", 0, 0)>>,
     <<Op("Yield", 0, 0), Op("SetSleep", -1, 0)>>,
     <<Op("SetSleep", 1, 0)>>}

InitContract ==
    \E cfg \in AllSchedulerConfigs, body \in [Threads -> ContractPrograms] :
        Boot(cfg, Rising, NotJoinable, NoSemValue,
             [t \in Threads |->
                IF t = MainThread
                THEN ForkAll \o body[t] \o <<Op("Finish", 0, 0)>>
                ELSE body[t]])

NextContract ==
    \/ User \/ ThreadBegin \/ ThreadYield \/ ThreadSleep \/ ThreadFork
    \/ ThreadFinish \/ SchedulerSetSleep \/ LockAcquire \/ LockRelease

SpecContract == InitContract /\ [][NextContract]_vars

----------------------------------------------------------------------------
(* TLB refills.  Every thread is a user program with an address space of
   NumVirtPages pages; its page faults call PushEntryToTLB.  The machine has
   fewer frames than one address space has pages, and no frame is given
   back. *)

PagingPrograms ==
    {<<Op("PushEntryToTLB", 0, 0), Op("PushEntryToTLB", 1, 0),
       Op("PushEntryToTLB", 2, 0)>>,
     <<Op("PushEntryToTLB", 1, 0), Op("PushEntryToTLB", 1, 0),
       Op("Yield", 0, 0)>>,
     <<Op("PushEntryToTLB", 2, 0), Op("Yield", 0, 0),
       Op("PushEntryToTLB", 0, 0)>>}

InitPaging ==
    \E cfg \in SchedulerConfigs, body \in [Threads -> PagingPrograms] :
        Boot(cfg, Rising, NotJoinable, NoSemValue,
             [t \in Threads |->
                IF t = MainThread
                THEN ForkAll \o body[t] \o <<Op("Finish", 0, 0)>>
                ELSE body[t]])

NextPaging ==
    \/ User \/ ThreadBegin \/ ThreadYield \/ ThreadSleep \/ ThreadFork
    \/ ThreadFinish \/ LockAcquire \/ LockRelease
    \/ FrameManagerAcquire \/ CoreMapManagerPushEntryToTLB

SpecPaging == InitPaging /\ [][NextPaging]_vars

----------------------------------------------------------------------------
(* Address translation.  Every thread is a user program that touches pages
   0 and 1 of its own address space and yields in between. *)

TranslatePrograms ==
    {<<Op("Translate", 0, 0), Op("Yield", 0, 0), Op("Translate", 0, 0)>>,
     <<Op("Translate", 1, 0), Op("Translate", 0, 0), Op("Translate", 1, 0)>>,
     <<Op("Yield", 0, 0)>>}

InitTranslate ==
    \E cfg \in SchedulerConfigs, body \in [Threads -> TranslatePrograms] :
        Boot(cfg, SamePriority, NotJoinable, NoSemValue,
             [t \in Threads |->
                IF t = MainThread
                THEN ForkAll \o body[t] \o <<Op("Finish", 0, 0)>>
                ELSE body[t]])

NextTranslate ==
    \/ User \/ ThreadBegin \/ ThreadYield \/ ThreadSleep \/ ThreadFork
    \/ ThreadFinish \/ LockAcquire \/ LockRelease
    \/ FrameManagerAcquire \/ CoreMapManagerPushEntryToTLB
    \/ MachineTranslate

SpecTranslate == InitTranslate /\ [][NextTranslate]_vars

----------------------------------------------------------------------------
(* The TLB manager by itself.  Its three operations are called in any order
   for the pages of one address space: CachePageEntry for a page the TLB
   does not hold, as the page fault handler does, FetchPageEntry for any
   page, and CleanTLB.  The clock has advanced by one tick when an entry is
   cached, as in PushEntryToTLB, and by one tick or not at all when an
   entry is fetched: the accesses of one instruction are made at the same
   tick.  The event of CachePageEntry tells the slot, the entry cached
   and the entry that was in the slot; the event of FetchPageEntry tells
   the page, the slot of the hit and the entry returned. *)

MaxTotalTicks == 5   \* largest value of stats->totalTicks

PageEntry(vpn) == [virtualPage |-> vpn, physicalPage |-> vpn, valid |-> TRUE]

Tick(s, ticks) == [s EXCEPT !.machine.totalTicks = @ + ticks]

TLBManagerCachePageEntry ==
    /\ abort = ""
    /\ \E vpn \in VirtualPages :
          /\ machine.totalTicks + 1 <= MaxTotalTicks
          /\ FetchSlot(machine, vpn) = -1
          /\ Commit(EventWith(CachePageEntry(Tick(S, 1), PageEntry(vpn)),
                              "CachePageEntry", currentThread,
                              FindEntryToCache(machine),
                              [entry |-> PageEntry(vpn),
                               overwritten |->
                                  machine.tlb[FindEntryToCache(machine)]]))

TLBManagerFetchPageEntry ==
    /\ abort = ""
    /\ \E vpn \in VirtualPages, ticks \in {0, 1} :
          /\ machine.totalTicks + ticks <= MaxTotalTicks
          /\ Commit(EventWith(FetchPageEntry(Tick(S, ticks), vpn),
                              "FetchPageEntry", currentThread, vpn,
                              [slot |-> FetchSlot(machine, vpn),
                               entry |-> FetchedEntry(machine, vpn)]))

TLBManagerCleanTLB ==
    /\ abort = ""
    /\ Commit(Event(CleanTLB(S), "CleanTLB", currentThread, 0))

InitTLB ==
    Boot([type |-> "FCFS", preemptive |-> FALSE], SamePriority, NotJoinable,
         NoSemValue, [t \in Threads |-> <<>>])

NextTLB ==
    \/ TLBManagerCachePageEntry \/ TLBManagerFetchPageEntry
    \/ TLBManagerCleanTLB

SpecTLB == InitTLB /\ [][NextTLB]_vars

----------------------------------------------------------------------------
(* Donation propagation.  The kernel is in a call of DonatePriority the main
   thread makes, with interrupts off, for thread 2 or 3.  The threads wait
   for each other in every way: desiredJoin of a thread is any other thread
   or NULL, cycles included, and desiredLock is lock 1, held by the last
   thread, or NULL; the main thread, which runs, waits for no lock. *)

(* The keys of the threads: the main thread is the most preferred under
   every policy, or all threads are as preferred. *)
ThreadKeys ==
    {[priority |-> Falling,
      burstTime |-> [t \in Threads |->
                       IF t = MainThread THEN 2 ELSE 5 * (t - 1)]],
     [priority |-> SamePriority,
      burstTime |-> [t \in Threads |-> InitialBurstTime]]}

DesiredJoins ==
    {j \in [Threads -> Threads \cup {NoThread}] : \A t \in Threads : j[t] # t}

InitDonation ==
    \E cfg \in SchedulerConfigs, key \in ThreadKeys, join \in DesiredJoins,
       holder \in {NThreads}, waiting \in SUBSET (Workers \ {NThreads}),
       donee \in Workers :
        /\ schedulerType = cfg.type
        /\ isPreemptive = cfg.preemptive
        /\ threads = [t \in Threads |->
                        [NewThread(key.priority[t], FALSE) EXCEPT
                            !.status = IF t = MainThread THEN "RUNNING"
                                       ELSE "BLOCKED",
                            !.forkCalled = TRUE,
                            !.burstTime = key.burstTime[t],
                            !.desiredJoin = join[t],
                            !.desiredLock = IF t \in waiting THEN 1
                                            ELSE NoLock]]
        /\ readyList = <<>>
        /\ sleepList = <<>>
        /\ currentThread = MainThread
        /\ toBeDestroyed = NoThread
        /\ level = "IntOff"
        /\ userTicks = 0
        /\ sems = [x \in Sems |-> [value |-> 0, queue |-> <<>>]]
        /\ locks = [x \in Locks |->
                      IF x = 1
                      THEN [locked |-> TRUE, lockHolder |-> holder,
                            waitQueue |-> <<>>]
                      ELSE [locked |-> FALSE, lockHolder |-> NoThread,
                            waitQueue |-> <<>>]]
        /\ conds = [x \in Conds |-> <<>>]
        /\ mbox = [buffer |-> 0, bufferWritable |-> TRUE, numRecvCalled |-> 0]
        /\ stack = [t \in Threads |->
                      IF t = MainThread
                      THEN <<Frame("DonatePriority", MainThread, donee)>>
                      ELSE <<>>]
        /\ prog = [t \in Threads |-> <<>>]
        /\ abort = ""
        /\ ev = NoEvent
        /\ hist = HistInit(NoSemValue)
        /\ frameManager = NewFrameManager
        /\ disk = Format
        /\ machine = [r2 |-> 0, mem |-> UserMemory, tlb |-> NewTLB,
                      lastUsed |-> NewLastUsed, totalTicks |-> 0]
        /\ openFileTable = [t \in Threads |-> NewOpenFileTable]
        /\ files = NewFileSystem
        /\ paging = NewCoreMapManager

NextDonation == SchedulerDonatePriority \/ ThreadSetEffectivePriority

SpecDonation == InitDonation /\ [][NextDonation]_vars

(* The processor goes on executing the call. *)
FairDonation == SpecDonation /\ WF_vars(NextDonation)

----------------------------------------------------------------------------
(* The order of the ready list and of dispatch.  In the reorder run the
   main thread, of the lowest priority, holds lock 1 and waits on the ready
   list behind thread 3 when thread 2, of the highest priority, wakes up and
   asks for the lock.  In the ping-pong runs the threads only Yield, as
   SimpleThread does: Thread::SelfTest is the run of two threads of one
   priority. *)

ReorderProgram ==
    [t \in Threads |->
        IF t = MainThread
        THEN <<Op("Acquire", 1, 0), Op("Fork", 2, 0), Op("Fork", 3, 0),
               Op("Yield", 0, 0), Op("Release", 1, 0), Op("Finish", 0, 0)>>
        ELSE IF t = 2
        THEN <<Op("SetSleep", 1, 0), Op("Acquire", 1, 0),
               Op("Release", 1, 0)>>
        ELSE <<Op("Yield", 0, 0), Op("Yield", 0, 0)>>]

SimpleThread == <<Op("Yield", 0, 0), Op("Yield", 0, 0), Op("Yield", 0, 0)>>

SelfTest ==
    [t \in Threads |->
        IF t = MainThread
        THEN <<Op("Fork", 2, 0)>> \o SimpleThread \o <<Op("Finish", 0, 0)>>
        ELSE SimpleThread]

PingPongOfThree ==
    [t \in Threads |->
        IF t = MainThread
        THEN ForkAll \o SimpleThread \o <<Op("Finish", 0, 0)>>
        ELSE SimpleThread]

(* Thread 2, of the priority of thread 3, forks it and then asks for the
   lock the main thread holds. *)
LateDonationProgram ==
    [t \in Threads |->
        IF t = MainThread
        THEN <<Op("Acquire", 1, 0), Op("Fork", 2, 0), Op("Release", 1, 0),
               Op("Finish", 0, 0)>>
        ELSE IF t = 2
        THEN <<Op("Fork", 3, 0), Op("Acquire", 1, 0), Op("Release", 1, 0)>>
        ELSE <<Op("Yield", 0, 0)>>]

LateDonationPriority == [t \in Threads |-> IF t = MainThread THEN 1 ELSE 6]

InitOrder ==
    \E cfg \in SchedulerConfigs :
        \/ Boot(cfg, DonationPriority, NotJoinable, NoSemValue,
                ReorderProgram)
        \/ Boot(cfg, LateDonationPriority, NotJoinable, NoSemValue,
                LateDonationProgram)
        \/ Boot(cfg, SamePriority, NotJoinable, NoSemValue, SelfTest)
        \/ \E prio \in {SamePriority, Rising, Falling} :
              Boot(cfg, prio, NotJoinable, NoSemValue, PingPongOfThree)

NextOrder ==
    \/ User \/ ThreadBegin \/ ThreadYield \/ ThreadSleep \/ ThreadFork
    \/ ThreadFinish \/ SchedulerSetSleep \/ TimerInterrupt
    \/ LockAcquire \/ LockRelease

SpecOrder == InitOrder /\ [][NextOrder]_vars

----------------------------------------------------------------------------
(* Processor bursts.  The machine advances stats->userTicks while the forked
   procedure of the current thread computes; each thread computes between
   its calls, yields, and waits on a semaphore or finishes. *)

MaxUserTicks == 60   \* largest value of stats->userTicks
Bursts == {20, 40}

MachineRunStep(s, ticks) == [s EXCEPT !.userTicks = @ + ticks]

MachineRun ==
    /\ Executing("User")
    /\ UserCanStep(S)
    /\ level = "IntOn"
    /\ \E ticks \in Bursts :
          /\ userTicks + ticks <= MaxUserTicks
          /\ Commit(MachineRunStep(Clear(S), ticks))

BurstPrograms == {<<Op("Yield", 0, 0), Op("V", 1, 0)>>}

BurstMainPrograms ==
    {<<Op("Yield", 0, 0), Op("Fork", 2, 0), Op("Fork", 3, 0),
       Op("Yield", 0, 0), Op("P", 1, 0), Op("Finish", 0, 0)>>}

InitBurst ==
    \E cfg \in SchedulerConfigs, main \in BurstMainPrograms,
       body \in BurstPrograms :
        Boot(cfg, SamePriority, NotJoinable, NoSemValue,
             [t \in Threads |-> IF t = MainThread THEN main ELSE body])

NextBurst ==
    \/ User \/ MachineRun \/ ThreadBegin \/ ThreadYield \/ ThreadSleep
    \/ ThreadFork \/ ThreadFinish \/ SemaphoreP \/ SemaphoreV
    \/ TimerInterrupt

SpecBurst == InitBurst /\ [][NextBurst]_vars

----------------------------------------------------------------------------
(* Properties of the semaphore and condition runs. *)

IsPrefixOf(a, b) == Len(a) <= Len(b) /\ a = SubSeq(b, 1, Len(a))
Running == {t \in Threads : threads[t].status = "RUNNING"}

(* C1, as stated: at every instant exactly one thread is RUNNING and it is
   currentThread. *)
C1_ExactlyOneRunning ==
    Running = {currentThread}

(* C1, amended: at most one thread is RUNNING and a RUNNING thread is
   currentThread; currentThread is RUNNING except while Thread::Sleep finds
   no ready thread and the processor idles, when no thread is RUNNING. *)
C1_AtMostOneRunning ==
    /\ Running \subseteq {currentThread}
    /\ IF Idle(S) THEN Running = {} ELSE Running = {currentThread}

(* The processor idles in Sleep with the current thread blocked and another
   thread on the sleep list. *)
C1_Witness ==
    /\ Idle(S)
    /\ threads[currentThread].status = "BLOCKED"
    /\ sleepList # <<>>
    /\ hist.preemptions > 0

(* C7, as stated: a thread that blocked in P before another returns from P
   before it, and Signal readies the thread that has waited longest. *)
C7_FifoReturn ==
    /\ \A x \in Sems : IsPrefixOf(hist.pReturned[x], hist.pBlocked[x])
    /\ ev.op = "Signal.wake" => ev.t = ev.arg

(* C7, amended: V and Signal ready the thread that has been longest in the
   queue of the semaphore or condition; nothing is said of the order in
   which calls of P return. *)
C7_WakesLongestWaiter ==
    ev.op \in {"V.wake", "Signal.wake"} => ev.t = ev.arg

(* Signal readies one of several waiters. *)
C7_Witness ==
    /\ ev.op = "Signal.wake"
    /\ conds[ev.obj] # <<>>

(* C8: value >= 0 and value = v0 + completed V - completed P; P returns only
   after decrementing a positive value. *)
C8_CountingSemaphore ==
    \A x \in Sems :
        /\ sems[x].value >= 0
        /\ sems[x].value = hist.v0[x] + hist.nV[x] - hist.nP[x]

(* A P that had blocked returns after a V. *)
C8_Witness ==
    /\ ev.op = "P.return"
    /\ IsInList(hist.pBlocked[ev.obj], ev.t)
    /\ hist.nV[ev.obj] > 0

(* C9: a thread sleeping in Wait does not hold the lock, a thread in the
   wait queue has not been signalled since it was enqueued, and Wait returns
   to a thread that was signalled, is off the queue and holds the lock. *)
C9_WaitProtocol ==
    /\ \A t \in Threads : \A i \in 1..Len(stack[t]) :
          stack[t][i].fn = "Wait" /\ stack[t][i].pc = "slept"
             => locks[stack[t][i].aux].lockHolder # t
    /\ \A cv \in Conds : \A i \in 1..Len(conds[cv]) :
          conds[cv][i] \notin hist.signalled
    /\ ev.op = "Wait.return" =>
          /\ ev.t \in hist.signalled
          /\ ~IsInList(conds[ev.obj], ev.t)
          /\ locks[ev.arg].lockHolder = ev.t

(* Wait returns under the preemptive Priority policy. *)
C9_Witness ==
    /\ ev.op = "Wait.return"
    /\ schedulerType = "Priority"
    /\ isPreemptive

----------------------------------------------------------------------------
(* Properties of the lock runs. *)

Holder(lk) == locks[lk].lockHolder
Eff(t) == getEffectivePriority(threads[t])
Waits(t, lk) == IsInList(locks[lk].waitQueue, t)
PreemptivePriority == schedulerType = "Priority" /\ isPreemptive
InCall(t, fn, obj, pc) ==
    \E i \in 1..Len(stack[t]) :
        stack[t][i].fn = fn /\ stack[t][i].obj = obj /\ stack[t][i].pc = pc

(* C2: between a thread's return from Acquire and its call of Release no
   other thread returns from Acquire on the lock, and lockHolder is that
   thread. *)
C2_MutualExclusion ==
    \A lk \in Locks :
        /\ Cardinality(hist.holds[lk]) <= 1
        /\ hist.holds[lk] =
              (IF Holder(lk) = NoThread THEN {} ELSE {Holder(lk)})
        /\ locks[lk].locked <=> Holder(lk) # NoThread

(* A thread returns from Acquire while another, readied by the same Release,
   is still inside Acquire. *)
C2_Witness ==
    /\ ev.op = "Acquire.return"
    /\ \E u \in Threads \ {ev.t} :
          /\ InCall(u, "Acquire", ev.obj, "loop")
          /\ threads[u].status = "READY"

(* The thread has returned to, or from, the Yield that ends Release. *)
Resumed(t, lk) ==
    /\ currentThread = t
    /\ InCall(t, "Release", lk, "fin")
    /\ ~(TopOf(S, t).fn = "Yield" /\ TopOf(S, t).pc = "entry")

(* C4: under preemptive Priority, while H (priority 6) waits for a lock
   held by L (priority 1), L's effective priority is 6; once L has released
   the lock its effective priority is 1 and it yields, and when L runs again
   H has acquired the lock. *)
C4_DonationThroughLock ==
    PreemptivePriority =>
        \A lk \in Locks, l \in Threads, h \in Threads :
            threads[l].priority = 1 /\ threads[h].priority = 6 =>
                /\ Holder(lk) = l /\ Waits(h, lk) => Eff(l) = 6
                /\ InCall(l, "Release", lk, "fin") => Eff(l) = 1
                /\ Resumed(l, lk) /\ h \in hist.readied[lk]
                      => h \in hist.acquired[lk]

(* L runs again after the Release that ended H's donation. *)
C4_Witness ==
    /\ PreemptivePriority
    /\ \E lk \in Locks, l \in Threads, h \in Threads :
          /\ threads[l].priority = 1 /\ threads[h].priority = 6
          /\ Resumed(l, lk)
          /\ h \in hist.readied[lk]
          /\ h \in hist.acquired[lk]

(* C5, as stated: when A waits for a lock held by B, B waits for a lock held
   by C, and B has received A's effective priority, which is above C's
   priority, C's effective priority equals A's. *)
C5_TransitiveDonation ==
    PreemptivePriority =>
        \A a \in Threads, b \in Threads, c \in Threads :
            \A x \in Locks, y \in Locks :
                /\ Waits(a, y) /\ Holder(y) = b
                /\ Waits(b, x) /\ Holder(x) = c
                /\ threads[b].isDonated
                /\ threads[b].donatedPriority = Eff(a)
                /\ Eff(a) > threads[c].priority
                => Eff(c) = Eff(a)

(* C6, as stated: the effective priority of a thread is never below its
   priority. *)
C6_EffectiveAtLeastBase ==
    \A t \in Threads : Eff(t) >= threads[t].priority

----------------------------------------------------------------------------
(* Properties of the mailbox runs and of the Join runs. *)

(* C3: the messages received are the messages stored, in order and once
   each; a Send stores only into a consumed buffer and with a Receive
   pending, and a stored message stays in the buffer until it is received. *)
C3_Rendezvous ==
    /\ IsPrefixOf(hist.received, hist.sent)
    /\ Len(hist.sent) =
          Len(hist.received) + (IF mbox.bufferWritable THEN 0 ELSE 1)
    /\ ~mbox.bufferWritable =>
          /\ mbox.buffer = hist.sent[Len(hist.sent)]
          /\ mbox.numRecvCalled >= 1
    /\ ev.op = "Send.store" => mbox.numRecvCalled >= 1

(* The messages of two senders have been received. *)
C3_Witness ==
    /\ ev.op = "Receive.return"
    /\ Len(hist.received) >= 2

(* C10: a joinable thread is in Sleep(TRUE), or handed over for destruction,
   only after Join was called on it and readyToFinish was set; Join returns
   only after the thread has called Finish. *)
C10_JoinFinishOrder ==
    /\ \A t \in Threads :
          /\ threads[t].isJoinable
          /\ \/ toBeDestroyed = t
             \/ threads[t].deleted
             \/ \E i \in 1..Len(stack[t]) :
                   stack[t][i].fn = "Sleep" /\ stack[t][i].aux = TRUE
          => threads[t].joinCalled /\ threads[t].readyToFinish
    /\ ev.op = "Join.return" =>
          ev.obj \in hist.finishing /\ threads[ev.obj].finishCalled

(* Join returns on a thread that waited in Finish for the Join. *)
C10_Witness ==
    /\ ev.op = "Join.return"
    /\ ev.obj \in hist.signalled

(* C11: the frames handed out and not released are pairwise distinct, they
   are exactly the marked bits of frameUsageBitmap, and their number plus
   the number of clear bits, which is what GetNumAvailFrames reads, is
   NumPhysPages; Acquire never returns a frame another caller holds, and it
   finds no frame (-1) exactly when no bit was clear. *)
FramesHeld == UNION {frameManager.held[t] : t \in Threads}
C11_FrameAllocation ==
    /\ \A t \in Threads, u \in Threads :
          t # u => frameManager.held[t] \cap frameManager.held[u] = {}
    /\ FramesHeld = frameManager.bitmap
    /\ Cardinality(FramesHeld)
          + BitmapNumClear(frameManager.bitmap, NumPhysPages) = NumPhysPages
    /\ ev.op = "NumClear" => Cardinality(FramesHeld) + ev.arg = NumPhysPages
    /\ ev.op = "FindAndSet" => (ev.arg = -1 <=> ev.obj = 0)
    /\ ev.op = "FrameAcquire.return" /\ ev.arg # -1 =>
          \A u \in Threads \ {ev.t} : ev.arg \notin frameManager.held[u]

(* A thread's Acquire returns -1 while two other threads hold all the
   frames between them. *)
C11_Witness ==
    /\ ev.op = "FrameAcquire.return"
    /\ ev.arg = -1
    /\ Cardinality(FramesHeld) = NumPhysPages
    /\ frameManager.held[ev.t] = {}
    /\ \A u \in Threads \ {ev.t} : frameManager.held[u] # {}


(* C12: the free map on disk has set exactly sectors 0 and 1 and the data
   sectors and chained header sectors of the free-map file, of the
   directory file and of every file in the root directory, together with
   the header sector of each such file. *)
RECURSIVE ChainSectors(_, _)
ChainSectors(sectors, sector) ==
    LET image == sectors[sector]
        data == {image.dataSectors[i] : i \in 1..image.numSectors}
    IN  IF image.nextFileHeaderSector # -1
        THEN data \cup {image.nextFileHeaderSector}
                  \cup ChainSectors(sectors, image.nextFileHeaderSector)
        ELSE data
SectorsInUse ==
    {FreeMapSector, DirectorySector}
        \cup ChainSectors(disk.sectors, FreeMapSector)
        \cup ChainSectors(disk.sectors, DirectorySector)
        \cup UNION {{disk.directory[i].sector}
                        \cup ChainSectors(disk.sectors,
                                          disk.directory[i].sector) :
                    i \in {k \in 1..NumDirEntries : disk.directory[k].inUse}}
C12_FreeMapConsistent == disk.freeMap = SectorsInUse

(* C13: a Create that cannot be completed returns FALSE, the simulator does
   not stop, and the free map and the directory on disk are as before the
   call. *)
C13_CreateFailsCleanly ==
    [][ev'.op \in {"Create.return", "Create.abort"} /\ ~ev'.arg.success
          => abort' = "" /\ disk' = disk]_vars

(* C14: after a successful Allocate(freeMap, s), as Create calls it,
   FileLength() of the header is s. *)
C14_FileLength ==
    ev.op = "Create.return" /\ ev.arg.success => ev.arg.length = ev.obj.size

----------------------------------------------------------------------------
(* The system calls. *)

(* The string a user program has at addr: the bytes up to the first 0. *)
RECURSIVE StringAt(_, _)
StringAt(mem, addr) ==
    IF ~ValidAddress(mem, addr) THEN <<>>
    ELSE IF ReadMem(mem, addr) = 0 THEN <<>>
    ELSE <<ReadMem(mem, addr)>> \o StringAt(mem, addr + 1)

(* The file name at addr: the string cut at the length of a file name. *)
NameAt(mem, addr) ==
    SubSeq(StringAt(mem, addr), 1,
           min(Len(StringAt(mem, addr)), MaxFileNameLength))

CreateShouldSucceed(arg1) ==
    /\ arg1 # 0
    /\ NameAt(machine.mem, arg1) # <<>>
    /\ NameAt(machine.mem, arg1) \notin files.directory
    /\ Cardinality(files.directory) < NumDirEntries

(* C15: the Create system call leaves 0 in register 2 exactly when the
   pointer is not null, the name is not empty, the directory has no entry
   of that name and there is room, and the file then exists; otherwise it
   leaves -1 and the directory and the files are as before.  So the second
   Create of a name gives -1. *)
C15_CreateSyscall ==
    [][ev'.op = "SC_Create" =>
          IF CreateShouldSucceed(ev'.obj.r4)
          THEN /\ machine'.r2 = 0
               /\ files'.directory =
                    files.directory \cup {NameAt(machine.mem, ev'.obj.r4)}
          ELSE /\ machine'.r2 = -1
               /\ files' = files]_vars

(* A second Create of a name, with room in the directory, has given -1. *)
C15_Witness ==
    /\ ev.op = "SC_Create"
    /\ machine.r2 = -1
    /\ ev.obj.r4 # 0
    /\ NameAt(machine.mem, ev.obj.r4) \in files.directory
    /\ Cardinality(files.directory) < NumDirEntries

(* The descriptors a thread has open, and a descriptor that is open. *)
OpenFdsIn(table) == {i \in FileDescriptors : table[i].inUse}
OpenFds(t) == OpenFdsIn(openFileTable[t])
IsOpenFd(t, fd) == fd \in FileDescriptors /\ openFileTable[t][fd].inUse
OpenCount == Cardinality({x \in Threads \X FileDescriptors :
                            openFileTable[x[1]][x[2]].inUse})

(* C16: a thread never has more than MaxNumUserOpenFiles descriptors and
   every OpenFile object alive is in a table; an Open with the table full
   leaves -1 in register 2, the table as it was, and no OpenFile object
   more than before. *)
C16_OpenTableFull ==
    /\ [](\A t \in Threads : Cardinality(OpenFds(t)) <= MaxNumUserOpenFiles)
    /\ [](files.live = OpenCount)
    /\ [][ev'.op = "SC_Open" /\ OpenFds(ev'.t) = FileDescriptors =>
            /\ machine'.r2 = -1
            /\ openFileTable' = openFileTable
            /\ files'.live = files.live]_vars

(* An Open of a file that exists and is open under a descriptor has given
   -1 with the table full. *)
C16_Witness ==
    /\ ev.op = "SC_Open"
    /\ machine.r2 = -1
    /\ OpenFds(ev.t) = FileDescriptors
    /\ NameAt(machine.mem, ev.obj.r4) \in files.directory
    /\ \E fd \in FileDescriptors :
          openFileTable[ev.t][fd].openFile.name =
              NameAt(machine.mem, ev.obj.r4)

LowestFree(t) ==
    CHOOSE i \in FileDescriptors \ OpenFds(t) :
        \A j \in FileDescriptors \ OpenFds(t) : i <= j

(* C17: an Open that succeeds returns the lowest descriptor not open, and
   makes it open and nothing else; a Close of an open descriptor frees it
   and nothing else; a Close of a descriptor out of range or not open
   changes neither the table nor the files. *)
C17_LowestFreeFd ==
    /\ [][ev'.op = "SC_Open" /\ machine'.r2 # -1 =>
            /\ OpenFds(ev'.t) # FileDescriptors
            /\ machine'.r2 = LowestFree(ev'.t)
            /\ OpenFdsIn(openFileTable'[ev'.t]) =
                  OpenFds(ev'.t) \cup {machine'.r2}
            /\ \A fd \in OpenFds(ev'.t) :
                  openFileTable'[ev'.t][fd] = openFileTable[ev'.t][fd]]_vars
    /\ [][ev'.op = "SC_Close" =>
            IF IsOpenFd(ev'.t, ev'.obj.r4)
            THEN /\ OpenFdsIn(openFileTable'[ev'.t]) =
                    OpenFds(ev'.t) \ {ev'.obj.r4}
                 /\ \A fd \in OpenFdsIn(openFileTable'[ev'.t]) :
                       openFileTable'[ev'.t][fd] = openFileTable[ev'.t][fd]
            ELSE /\ openFileTable' = openFileTable
                 /\ files' = files]_vars

(* An Open has returned descriptor 0 and the table is full: descriptor 0
   was closed while the others were open. *)
C17_Witness ==
    /\ ev.op = "SC_Open"
    /\ machine.r2 = 0
    /\ OpenFds(ev.t) = FileDescriptors

(* C18: a Read with a descriptor that is not open or a length <= 0, and a
   Write with a descriptor that is not open or a length < 0, leave -1 in
   register 2 and the files, the table and the user memory as they were. *)
C18_IllegalReadWrite ==
    [][(\/ /\ ev'.op = "SC_Read"
           /\ (~IsOpenFd(ev'.t, ev'.obj.r6) \/ ev'.obj.r5 <= 0)
        \/ /\ ev'.op = "SC_Write"
           /\ (~IsOpenFd(ev'.t, ev'.obj.r6) \/ ev'.obj.r5 < 0))
       => /\ machine'.r2 = -1
          /\ files' = files
          /\ openFileTable' = openFileTable
          /\ machine'.mem = machine.mem]_vars

(* A Read of length 0 from an open descriptor whose file has bytes left to
   read has given -1. *)
C18_Witness ==
    /\ ev.op = "SC_Read"
    /\ machine.r2 = -1
    /\ ev.obj.r5 = 0
    /\ IsOpenFd(ev.t, ev.obj.r6)
    /\ LET file == openFileTable[ev.t][ev.obj.r6].openFile
       IN  file.seekPosition < Len(files.data[file.name])

(* C19: a Write of n >= 0 bytes to an open descriptor hands OpenFile::Write
   exactly the n bytes at bufAddr .. bufAddr + n - 1, whatever their
   values, and leaves in register 2 the number of bytes written; for n = 0
   that is 0. *)
C19_WriteCopies ==
    ev.op = "SC_Write" /\ IsOpenFd(ev.t, ev.obj.r6) /\ ev.obj.r5 >= 0
        => /\ ev.arg.called
           /\ ev.arg.passed = Bytes(machine.mem, ev.obj.r4, ev.obj.r5)
           /\ machine.r2 >= 0
           /\ machine.r2 <= ev.obj.r5
           /\ ev.obj.r5 = 0 => machine.r2 = 0

----------------------------------------------------------------------------
(* Timed sleep. *)

(* A thread that has called SetSleep and has not gone to sleep yet:
   interrupts are off until it has. *)
GoingToSleep(t) ==
    /\ currentThread = t
    /\ threads[t].status = "RUNNING"
    /\ level = "IntOff"

(* C20: a thread on the sleep list is blocked and not on the ready list,
   from its SetSleep(n) until n ticks have passed; after every tick the
   threads whose n ticks have passed are off the sleep list and ready or
   running, and the others are still on it; the sleep list is sorted by
   wake-up time. *)
C20_TimedSleep ==
    /\ \A t \in Sleepers(S) :
          /\ ~IsInList(readyList, t)
          /\ threads[t].status = "BLOCKED" \/ GoingToSleep(t)
          /\ hist.sleepTicks[t] < hist.sleepAsked[t]
    /\ \A t \in Threads \ Sleepers(S) :
          hist.sleepAsked[t] > 0 =>
              hist.sleepTicks[t] = hist.sleepAsked[t]
    /\ \A i, j \in 1..Len(sleepList) :
          /\ i < j => sleepList[i].when <= sleepList[j].when
          /\ i # j => sleepList[i].thread # sleepList[j].thread
    /\ \A i \in 1..Len(sleepList) :
          sleepList[i].when =
              hist.sleepAsked[sleepList[i].thread]
                  - hist.sleepTicks[sleepList[i].thread]

(* Of two threads that went to sleep in the same tick, for MaxSleep and for
   1 tick, the second is ready after one tick and the first still
   asleep. *)
C20_Witness ==
    \E a, b \in Threads :
        /\ a \in Sleepers(S)
        /\ hist.sleepAsked[a] = MaxSleep
        /\ hist.sleepTicks[a] = 1
        /\ threads[a].status = "BLOCKED"
        /\ b \notin Sleepers(S)
        /\ hist.sleepAsked[b] = 1
        /\ hist.sleepTicks[b] = 1
        /\ threads[b].status = "READY"
        /\ IsInList(readyList, b)

----------------------------------------------------------------------------
(* Contract violations. *)

(* The current thread is about to enter fn. *)
Entering(fn) ==
    /\ stack[currentThread] # <<>>
    /\ TopOf(S, currentThread).fn = fn
    /\ TopOf(S, currentThread).pc = "entry"

(* The call the current thread is about to make breaks its contract. *)
ContractViolated ==
    \/ /\ Entering("Release")
       /\ locks[TopOf(S, currentThread).obj].lockHolder # currentThread
    \/ /\ Entering("Acquire")
       /\ locks[TopOf(S, currentThread).obj].locked
       /\ locks[TopOf(S, currentThread).obj].lockHolder = currentThread
    \/ Entering("Sleep") /\ level = "IntOn"
    \/ Entering("SetSleep") /\ TopOf(S, currentThread).obj <= 0

(* C21: a Release of a lock the caller does not hold, an Acquire of a lock
   the caller holds, a Sleep with interrupts on and a SetSleep of no ticks
   stop the simulator in an assertion, and so does the construction of a
   preemptive FCFS scheduler; once stopped the simulator takes no step. *)
C21_ContractViolationsHalt ==
    /\ [](schedulerType = "FCFS" /\ isPreemptive => abort # "")
    /\ [][ContractViolated => abort' # ""]_vars
    /\ [][abort = ""]_vars

(* The simulator stopped in Release called for a lock another thread
   holds. *)
C21_Witness ==
    /\ abort = "Release: not the lock holder"
    /\ Entering("Release")
    /\ locks[TopOf(S, currentThread).obj].locked
    /\ locks[TopOf(S, currentThread).obj].lockHolder # currentThread
    /\ locks[TopOf(S, currentThread).obj].lockHolder # NoThread

(* PushEntryToTLB of the current thread has been refused a frame: Acquire
   returned -1. *)
NoFrameLeft ==
    /\ Executing("PushEntryToTLB")
    /\ TopOf(S, currentThread).pc = "acquired"
    /\ TopOf(S, currentThread).aux = -1

(* C22: when the page is not resident and Acquire returns -1, PushEntryToTLB
   stops the simulator; it does not ask the address space to load the page,
   writes no core map entry and caches no TLB entry. *)
C22_NoFrameIsFatal ==
    [][NoFrameLeft /\ ev'.op \in {"PushEntryToTLB.return",
                                  "PushEntryToTLB.fault"}
       => /\ abort' # ""
          /\ paging' = paging
          /\ machine'.tlb = machine.tlb]_vars

(* The step C22 is about, as the code takes it: the load is requested for
   frame -1 and the simulator either dies in the store to coreMap[-1] or
   caches the entry and returns. *)
C22_LoadsWithoutFrame ==
    [][NoFrameLeft /\ ev'.op \in {"PushEntryToTLB.return",
                                  "PushEntryToTLB.fault"}
       => /\ [owner |-> currentThread, vpn |-> ev'.obj, ppn |-> -1]
                \in paging'.loads
          /\ paging'.coreMap = paging.coreMap
          /\ abort' = "" =>
                \E i \in TLBSlots : /\ machine'.tlb[i].valid
                                    /\ machine'.tlb[i].virtualPage = ev'.obj
                                    /\ machine'.tlb[i].physicalPage = -1]_vars

(* A refill that found no frame returned with the entry cached. *)
C22_Reached ==
    /\ ev.op = "PushEntryToTLB.return"
    /\ ev.arg = "miss"
    /\ \E i \in TLBSlots : /\ machine.tlb[i].valid
                           /\ machine.tlb[i].virtualPage = ev.obj
                           /\ machine.tlb[i].physicalPage = -1

(* The threads of a queue. *)
Members(queue) == {queue[i] : i \in 1..Len(queue)}

(* The lock the current thread is about to release. *)
ReleasedLock == TopOf(S, currentThread).obj

(* The lock is free, nobody waits for it, and the threads of woken are on
   the ready list with status READY. *)
AllReadied(lockState, woken, list, objects) ==
    /\ lockState.waitQueue = <<>>
    /\ lockState.lockHolder = NoThread
    /\ ~lockState.locked
    /\ \A w \in Members(woken) :
          IsInList(list, w) /\ objects[w].status = "READY"

(* C23 as stated: when Release returns, the wait queue is empty, the lock
   has no owner and every thread that was in the queue is on the ready list
   with status READY. *)
C23_ReadiedAtReturn ==
    ev.op = "Release.return" =>
        AllReadied(locks[ev.obj], ev.arg, readyList, threads)

(* C23: when Release has freed the lock and restored the interrupt level,
   before the Yield that may end it, the wait queue is empty, the lock has
   no owner and every thread that was in the queue is on the ready list
   with status READY. *)
C23_ReleaseReadiesAll ==
    [][Entering("Release") /\ ~locks'[ReleasedLock].locked
       => AllReadied(locks'[ReleasedLock], locks[ReleasedLock].waitQueue,
                     readyList', threads')]_vars

(* Release returned without a Yield after it readied two waiters. *)
C23_Witness ==
    /\ ev.op = "Release.return"
    /\ Len(ev.arg) = 2
    /\ AllReadied(locks[ev.obj], ev.arg, readyList, threads)

(* The list is in the order of the comparator of the scheduler of s. *)
IsSorted(s, list) ==
    \A i \in 1..(Len(list) - 1) : CompareThread(s, list[i], list[i + 1]) <= 0

(* C24: for consecutive threads a, b of the ready list CompareThread(a, b)
   is at most 0 under the comparator of the scheduler, in every state: also
   after a donation, a donation reset and a new burst prediction. *)
C24_ReadyListSorted == IsSorted(S, readyList)

(* A donation moved a thread of the ready list in front of a thread of
   higher base priority. *)
C24_Witness ==
    /\ schedulerType = "Priority" /\ isPreemptive
    /\ Len(readyList) >= 2
    /\ threads[readyList[1]].isDonated
    /\ threads[readyList[1]].priority < threads[readyList[2]].priority
    /\ CompareThread(S, readyList[1], readyList[2]) < 0

(* The step is a call of FindNextToRun by the current thread, in Yield or in
   Sleep. *)
CallsFindNextToRun == ev'.op = "FindNextToRun" /\ abort' = ""

(* C25: under a preemptive scheduler FindNextToRun called by a BLOCKED
   thread (in Sleep) removes and returns the head of the ready list, or
   returns none when the list is empty; called by a thread that is not
   BLOCKED (in Yield) it removes and returns the head exactly when
   CompareThread(head, current) <= 0, and otherwise, or when the list is
   empty, returns the current thread and leaves the ready list as it is. *)
C25_PreemptiveFindNextToRun ==
    [][isPreemptive /\ CallsFindNextToRun =>
         LET cur == currentThread
             head == Head(readyList)
         IN  IF TopOf(S, cur).fn = "Sleep"
             THEN IF readyList = <<>>
                  THEN /\ ev'.arg = NoThread
                       /\ readyList' = <<>>
                       /\ currentThread' = cur
                  ELSE /\ ev'.arg = head
                       /\ readyList' = Tail(readyList)
                       /\ currentThread' = head
             ELSE IF readyList # <<>> /\ CompareThread(S, head, cur) <= 0
                  THEN /\ ev'.arg = head
                       /\ currentThread' = head
                       /\ Members(readyList') =
                             (Members(readyList) \ {head}) \cup {cur}
                  ELSE /\ ev'.arg = cur
                       /\ readyList' = readyList
                       /\ currentThread' = cur]_vars

(* Under a preemptive scheduler a thread that called Yield kept the
   processor although the ready list is not empty. *)
C25_Witness ==
    /\ isPreemptive
    /\ ev.op = "FindNextToRun"
    /\ ev.arg = ev.t
    /\ currentThread = ev.t
    /\ threads[ev.t].status = "RUNNING"
    /\ readyList # <<>>
    /\ CompareThread(S, Head(readyList), currentThread) > 0

(* x stands before y in the list. *)
Before(list, x, y) ==
    \E i, j \in 1..Len(list) : i < j /\ list[i] = x /\ list[j] = y

(* The step dispatches the head of the ready list, which FindNextToRun
   returned to Yield or Sleep. *)
Dispatches ==
    /\ CallsFindNextToRun
    /\ ev'.arg # NoThread
    /\ ev'.arg # currentThread

(* No thread left on the ready list is preferred to the dispatched one, and
   of the threads as preferred as the dispatched one none is earlier in
   order. *)
DispatchFollows(order) ==
    Dispatches =>
        \A x \in Members(readyList) \ {ev'.arg} :
           /\ CompareThread(S, ev'.arg, x) <= 0
           /\ CompareThread(S, ev'.arg, x) = 0 => Before(order, ev'.arg, x)

(* Under FCFS and RR the ready list is in the order of the ReadyToRun
   calls. *)
FifoUnderFCFSAndRR ==
    [](schedulerType \in {"FCFS", "RR"} => readyList = hist.madeReady)

(* In the run of Thread::SelfTest a Yield hands the processor to the other
   thread whenever the other thread is ready. *)
SelfTestAlternates ==
    [][prog = SelfTest /\ CallsFindNextToRun /\ readyList # <<>>
       => ev'.arg = Head(readyList) /\ currentThread' # currentThread]_vars

(* C26 as stated: the thread FindNextToRun removes is never less preferred
   than a thread left on the ready list, and among equally preferred
   threads the one made ready earliest, by ReadyToRun, is dispatched first;
   under FCFS and RR threads run in the order of their ReadyToRun calls;
   two threads that only Yield alternate. *)
C26_MadeReadyEarliestFirst ==
    /\ [][DispatchFollows(hist.madeReady)]_vars
    /\ FifoUnderFCFSAndRR
    /\ SelfTestAlternates

(* C26: the thread FindNextToRun removes is never less preferred than a
   thread left on the ready list, and among equally preferred threads the
   one inserted earliest is dispatched first, where the insertion of a
   thread is its ReadyToRun or, if a donation changed its key since, the
   re-insertion by UpdateReadyList; under FCFS and RR threads run in the
   order of their ReadyToRun calls; two threads that only Yield
   alternate. *)
C26_DispatchOrderStable ==
    /\ [][DispatchFollows(hist.inserted)]_vars
    /\ FifoUnderFCFSAndRR
    /\ SelfTestAlternates

(* A thread was dispatched while a thread as preferred stays on the ready
   list, which a donation re-inserted after the dispatched thread was made
   ready. *)
C26_Witness ==
    /\ ev.op = "FindNextToRun"
    /\ ev.arg = currentThread
    /\ ev.arg # ev.t
    /\ \E x \in Members(readyList) :
          /\ CompareThread(S, currentThread, x) = 0
          /\ threads[x].isDonated


(* The lock the current thread calls Acquire or Release for. *)
CalledLock == TopOf(S, currentThread).obj

(* The step is the part of Lock::Acquire in which the current thread, finding
   the lock taken, joins the wait queue and calls DonatePriority for the
   holder. *)
DonatesToHolder ==
    /\ Executing("Acquire")
    /\ abort' = ""
    /\ locks[CalledLock].locked
    /\ locks'[CalledLock].waitQueue =
          Append(locks[CalledLock].waitQueue, currentThread)

(* C27: DonatePriority(donor, donee) sets the donated priority of donee to
   the effective priority of donor exactly when that is greater than the
   effective priority of donee, and otherwise leaves donee as it is, under
   every scheduler type and preemption setting. *)
C27_DonatesWhenHigher ==
    [][DonatesToHolder =>
         LET doner == threads[currentThread]
             holder == locks[CalledLock].lockHolder
             donee == threads[holder]
         IN  IF getEffectivePriority(doner) > getEffectivePriority(donee)
             THEN /\ threads'[holder].isDonated
                  /\ threads'[holder].donatedPriority =
                        getEffectivePriority(doner)
             ELSE /\ threads'[holder].isDonated = donee.isDonated
                  /\ threads'[holder].donatedPriority = donee.donatedPriority
      ]_vars

(* What the code does: the donation depends on CompareThread, that is on
   the comparator of the scheduler. *)
C27_DonatesWhenSortedBefore ==
    [][DonatesToHolder =>
         LET doner == threads[currentThread]
             holder == locks[CalledLock].lockHolder
             donee == threads[holder]
         IN  IF CompareThread(S, currentThread, holder) < 0
             THEN /\ threads'[holder].isDonated
                  /\ threads'[holder].donatedPriority =
                        getEffectivePriority(doner)
             ELSE /\ threads'[holder].isDonated = donee.isDonated
                  /\ threads'[holder].donatedPriority = donee.donatedPriority
      ]_vars

(* The first call of DonatePriority has returned. *)
DonationReturned == stack[MainThread] = <<>> /\ abort = ""

(* C28: for every configuration of desiredLock and desiredJoin pointers,
   cycles included, a call of DonatePriority makes finitely many calls of
   setEffectivePriority and DonatePriority and returns; the calls nest
   less than MaxCallDepth deep. *)
C28_DonationTerminates ==
    /\ <>DonationReturned
    /\ [](Len(stack[MainThread]) < MaxCallDepth)

(* The call returned after the donation went once round two threads that
   join each other. *)
C28_Witness ==
    /\ DonationReturned
    /\ ev.op = "DonatePriority.return"
    /\ threads[2].desiredJoin = 3
    /\ threads[3].desiredJoin = 2
    /\ threads[2].isDonated
    /\ threads[3].isDonated

(* C29: under preemptive Priority the effective priority of a thread that
   holds a lock is at least that of every thread blocked in Acquire on a
   lock it holds, and the effective priority of the target of a pending
   Join is at least that of the joining thread; so releasing one of two
   locks does not take away the donation received through the other. *)
C29_NoPriorityInversion ==
    PreemptivePriority =>
        /\ \A lk \in Locks, w \in Threads :
              /\ Waits(w, lk) /\ threads[w].status = "BLOCKED"
              /\ Holder(lk) # NoThread
              => Eff(Holder(lk)) >= Eff(w)
        /\ \A w \in Threads :
              /\ threads[w].desiredJoin # NoThread
              /\ threads[w].status = "BLOCKED"
              /\ InCall(w, "Join", threads[w].desiredJoin, "loop")
              => Eff(threads[w].desiredJoin) >= Eff(w)

(* A thread released one of the two locks it held and has lost the donation
   of the thread that waits for the other. *)
C29_DonationLost ==
    /\ PreemptivePriority
    /\ ev.op = "Release.return"
    /\ \E lk \in Locks, w \in Threads :
          /\ lk # ev.obj
          /\ Holder(lk) = ev.t
          /\ Waits(w, lk)
          /\ ~threads[ev.t].isDonated
          /\ Eff(ev.t) < Eff(w)

----------------------------------------------------------------------------
(* Properties of the places a thread is kept in. *)

Occurrences(list, t) == Cardinality({i \in 1..Len(list) : list[i] = t})
OnReadyList(t) == Occurrences(readyList, t)
OnWaitQueues(t) ==
    Cardinality({x \in Sems : IsInList(sems[x].queue, t)})
    + Cardinality({x \in Locks : IsInList(locks[x].waitQueue, t)})
    + Cardinality({x \in Conds : IsInList(conds[x], t)})
Places(t) == OnReadyList(t) + (IF t \in Sleepers(S) THEN 1 ELSE 0) + OnWaitQueues(t)

(* C30: each thread is in at most one place among running, the ready list,
   the sleep list and the wait queues of the semaphores, locks and
   conditions; it is at most once on the ready list; and every thread on
   the ready list has status READY. The running thread is on no list while
   interrupts are enabled; with interrupts disabled it may have put itself
   on the one list it is about to leave the processor for. *)
C30_MembershipExclusive ==
    /\ \A t \in Threads :
          /\ Places(t) <= 1
          /\ t # currentThread /\ OnReadyList(t) = 1
                => threads[t].status = "READY"
    /\ level = "IntOn" /\ abort = "" => Places(currentThread) = 0

(* A thread that Condition::Wait has put on the condition's queue is on the
   ready list as well: Lock::Release yielded. *)
C30_ReadyWhileWaiting ==
    \E t \in Threads, cv \in Conds :
        /\ IsInList(conds[cv], t)
        /\ OnReadyList(t) >= 1
        /\ t # currentThread

(* A thread is on the ready list twice. *)
C30_TwiceReady == \E t \in Threads : OnReadyList(t) >= 2

----------------------------------------------------------------------------
(* Properties of the mailbox exchange. *)

CallsMailbox(t) ==
    \E i \in 1..Len(prog[t]) : prog[t][i].op \in {"Send", "Receive"}
(* The thread's procedure is past its call and the call is not active. *)
ReturnedFromMailbox(t) ==
    /\ stack[t] # <<>>
    /\ stack[t][1].fn = "User"
    /\ \A i \in 1..Len(prog[t]) :
          prog[t][i].op \in {"Send", "Receive"} => stack[t][1].obj > i
    /\ \A i \in 1..Len(stack[t]) : stack[t][i].fn \notin {"Send", "Receive"}
AllReturned ==
    \A t \in PairThreads : CallsMailbox(t) => ReturnedFromMailbox(t)

(* A sender waits on sendWait, the buffer is writable, a Receive is pending
   and no thread can run. *)
SenderStuck ==
    /\ conds[sendWait] # <<>>
    /\ mbox.bufferWritable
    /\ mbox.numRecvCalled > 0

(* C31: when as many threads call Send once as call Receive once, every call
   eventually returns, and no sender stays on sendWait forever while the
   buffer is writable and a Receive is pending. *)
C31_MailboxProgress == <>AllReturned /\ ~<>[]SenderStuck

(* With one sender and one receiver every call returns. *)
OnePair == Cardinality({t \in PairThreads : CallsMailbox(t)}) = 2
C31_OnePairProgress == OnePair => <>AllReturned

(* The exchange has stopped with a sender on sendWait and a receiver on
   recvWait. *)
C31_Stuck ==
    /\ SenderStuck
    /\ conds[recvWait] # <<>>
    /\ readyList = <<>>
    /\ Idle(S)

----------------------------------------------------------------------------
(* Properties of the Join and Finish handshake. *)

CallsJoin(t) == \E i \in 1..Len(prog[t]) : prog[t][i].op = "Join"
ReturnedFromJoin(t) ==
    /\ stack[t] # <<>>
    /\ stack[t][1].fn = "User"
    /\ \A i \in 1..Len(prog[t]) :
          prog[t][i].op = "Join" => stack[t][1].obj > i
    /\ \A i \in 1..Len(stack[t]) : stack[t][i].fn # "Join"
InSleepFinishing(t) ==
    \E i \in 1..Len(stack[t]) :
        stack[t][i].fn = "Sleep" /\ stack[t][i].aux = TRUE
JoinObjectsFree(t) ==
    /\ ~locks[joinLock(t)].locked
    /\ locks[joinLock(t)].lockHolder = NoThread
    /\ locks[joinLock(t)].waitQueue = <<>>
    /\ conds[joinWait(t)] = <<>>
    /\ conds[finishWait(t)] = <<>>
    /\ conds[deleteWait(t)] = <<>>
HandshakeDone ==
    /\ \A t \in Threads : CallsJoin(t) => ReturnedFromJoin(t)
    /\ \A t \in Threads : threads[t].isJoinable => InSleepFinishing(t)

(* C32: for a forked joinable thread and its joiner, whichever of Finish and
   Join starts first, Join eventually returns and the joined thread
   eventually reaches Sleep(TRUE); from then on its joinLock is free and the
   wait queues of joinLock, joinWait, finishWait and deleteWait are empty,
   and no assertion has failed. *)
C32_HandshakeCompletes ==
    /\ <>HandshakeDone
    /\ [](\A t \in Threads :
            threads[t].isJoinable /\ InSleepFinishing(t) => JoinObjectsFree(t))
    /\ [](abort = "")

(* The joined thread is deleted after a handshake in which Finish waited for
   the Join, and the joiner has returned. *)
C32_Witness ==
    /\ HandshakeDone
    /\ \E t \in Threads :
          /\ threads[t].isJoinable
          /\ threads[t].deleted
          /\ t \in hist.signalled

----------------------------------------------------------------------------
(* Properties of the destruction of finished threads. *)

Deleted == {t \in DOMAIN threads : threads[t].deleted}
Destroys(t) == threads[t].deleted' /\ ~threads[t].deleted

(* C33: the thread recorded in toBeDestroyed is a thread in Sleep(TRUE) that
   is not the current thread; a thread is deleted only when it is the one
   recorded in toBeDestroyed, by another thread, which is the current one;
   a deleted thread never runs; and the assertions of Run (toBeDestroyed ==
   NULL) and of the destructor (this != currentThread) never fail. *)
C33_DestroyedByNextThread ==
    /\ [](/\ abort \notin {"Run: toBeDestroyed not NULL",
                           "~Thread: deleting current thread"}
          /\ toBeDestroyed # NoThread =>
                /\ toBeDestroyed # currentThread
                /\ InSleepFinishing(toBeDestroyed)
                /\ ~threads[toBeDestroyed].deleted
          /\ \A t \in Deleted :
                /\ t # currentThread
                /\ InSleepFinishing(t)
                /\ ~IsInList(readyList, t))
    /\ [][\A t \in DOMAIN threads :
            Destroys(t) =>
                /\ toBeDestroyed = t
                /\ toBeDestroyed' = NoThread
                /\ currentThread # t
                /\ currentThread' = currentThread]_vars

(* A second thread has finished after the first was deleted. *)
C33_Witness ==
    /\ Deleted # {}
    /\ toBeDestroyed # NoThread
    /\ toBeDestroyed \notin Deleted

----------------------------------------------------------------------------
(* Properties of the interrupt level. *)

(* The level the code of a function runs at between the calls it makes, when
   it was called with interrupts enabled: the forked procedures, the mailbox
   and the frame manager do not touch the level; Join disables interrupts
   from its first line to its last, Finish for good. *)
RunsEnabled == {"User", "Send", "Receive", "FrameAcquire", "FrameRelease",
                "GetNumAvailFrames"}
RunsDisabled == {"Join", "Finish"}

(* C34: when a call of P, V, Acquire, Release, Wait, Signal, SetSleep,
   Yield, Fork or Join has returned, the interrupt level is the level at
   the call: enabled in the code that called it with interrupts enabled,
   disabled in Join and Finish, which call with interrupts disabled. *)
C34_LevelRestored ==
    abort = "" /\ stack[currentThread] # <<>> =>
        LET f == TopOf(S, currentThread)
        IN  /\ f.fn \in RunsEnabled /\ f.pc # "entry" => level = "IntOn"
            /\ f.fn \in RunsDisabled /\ f.pc # "entry" => level = "IntOff"

(* P has returned to a thread that had blocked in it. *)
C34_Witness ==
    /\ ev.op = "P.return"
    /\ \E x \in Sems : IsInList(hist.pReturned[x], ev.t)
    /\ TopOf(S, currentThread).fn = "User"
    /\ level = "IntOn"

(* The messages of the ASSERT(getLevel() == IntOff) lines of the scheduler
   and of Thread.  getPriority and getEffectivePriority are called by the
   comparators only, from ReadyToRun, FindNextToRun, DonatePriority and
   UpdateReadyList after the assertion of the caller, and setDesiredJoin
   right after the SetLevel(IntOff) of the loop of Join. *)
InterruptAssertions ==
    {"ReadyToRun: interrupts on", "FindNextToRun: interrupts on",
     "Run: interrupts on", "DonatePriority: interrupts on",
     "UpdateReadyList: interrupts on", "Sleep: interrupts on",
     "setEffectivePriority: interrupts on",
     "resetEffectivePriority: interrupts on",
     "resetDesiredJoin: interrupts on"}

(* C35: no assertion on the interrupt level fails: ReadyToRun,
   FindNextToRun, Run, DonatePriority, UpdateReadyList, Thread::Sleep and
   the accessors of the priorities and of desiredJoin are only called with
   interrupts disabled. *)
C35_CalledWithInterruptsOff == abort \notin InterruptAssertions

(* A joiner has donated its priority to the thread it waits for and sleeps
   in Wait, and the thread it waits for has been dispatched with the donated
   priority. *)
C35_Witness ==
    /\ abort = ""
    /\ \E w \in Threads :
          /\ threads[w].desiredJoin = currentThread
          /\ threads[w].status = "BLOCKED"
          /\ threads[currentThread].isDonated
          /\ threads[currentThread].donatedPriority
                 = getEffectivePriority(threads[w])

----------------------------------------------------------------------------
(* Properties of the burst prediction. *)

(* b2 is (int)(0.5 * actual + 0.5 * b) for actual and b not negative. *)
IsTruncatedMean(b2, actual, b) ==
    2 * b2 <= actual + b /\ actual + b < 2 * b2 + 2

(* The step is a call of Yield or of Sleep by the current thread. *)
YieldCalled ==
    /\ abort = "" /\ abort' = "" /\ stack[currentThread] # <<>>
    /\ TopOf(S, currentThread).fn = "Yield"
    /\ TopOf(S, currentThread).pc = "entry"
SleepCalled ==
    /\ abort = "" /\ abort' = "" /\ stack[currentThread] # <<>>
    /\ TopOf(S, currentThread).fn = "Sleep"
    /\ TopOf(S, currentThread).pc = "entry"

(* The step is a Yield, called by the thread or on return from the timer
   interrupt handler, that switches to another thread. *)
YieldSwitches ==
    /\ abort = "" /\ abort' = "" /\ stack[currentThread] # <<>>
    /\ TopOf(S, currentThread).fn # "Sleep"
    /\ currentThread' # currentThread

ActualBurst == userTicks - threads[currentThread].startTicks

BurstUpdated ==
    IsTruncatedMean(threads'[currentThread].burstTime, ActualBurst,
                    threads[currentThread].burstTime)

(* C36, as stated: every call of Yield and of Sleep replaces the burstTime
   of the caller by the truncated mean of the actual burst, userTicks -
   startTicks, and the old burstTime. *)
C36_UpdatedOnEveryCall ==
    [][YieldCalled \/ SleepCalled => BurstUpdated]_vars

(* C36, amended: every call of Sleep, and every Yield that switches to
   another thread, replaces the burstTime of the caller by the truncated
   mean of the actual burst and the old burstTime; a Yield that returns
   without switching and every other step leave every burstTime as it is;
   a first burst of 20 turns the initial prediction 10 into 15 and a
   following burst of 40 turns 15 into 27. *)
C36_UpdatedWhenBurstEnds ==
    [][abort' = "" =>
        /\ SleepCalled \/ YieldSwitches => BurstUpdated
        /\ ~(SleepCalled \/ YieldSwitches) =>
               threads'[currentThread].burstTime
                  = threads[currentThread].burstTime
        /\ \A t \in Threads \ {currentThread} :
               threads'[t].burstTime = threads[t].burstTime
        /\ (SleepCalled \/ YieldSwitches) /\ ActualBurst = 20
              /\ threads[currentThread].burstTime = InitialBurstTime
               => threads'[currentThread].burstTime = 15
        /\ (SleepCalled \/ YieldSwitches) /\ ActualBurst = 40
              /\ threads[currentThread].burstTime = 15
               => threads'[currentThread].burstTime = 27]_vars

(* A thread whose bursts were 20 and 40: it was dispatched when userTicks
   was 20, has run to 60 and its prediction is 27. *)
C36_Witness ==
    /\ abort = ""
    /\ \E t \in Threads :
          /\ threads[t].burstTime = 27
          /\ threads[t].startTicks = 20
          /\ userTicks = 60
          /\ t # currentThread

(* A Yield has returned without switching and the prediction of the caller
   is still the initial one, although its truncated mean with the actual
   burst 0 is 5. *)
C36_NotUpdated ==
    /\ abort = ""
    /\ ev.op = "FindNextToRun"
    /\ ev.arg = currentThread
    /\ ev.t = currentThread
    /\ threads[currentThread].burstTime = InitialBurstTime
    /\ userTicks = threads[currentThread].startTicks

----------------------------------------------------------------------------
(* Properties of the TLB. *)

(* The page table entry of the current thread for page vpn. *)
PageEntryOfCurrentThread(vpn) == paging.pageTable[currentThread][vpn]

(* C37: every Run invalidates every TLB slot and resets the last-used
   times before the next thread runs; a valid TLB entry is the page table
   entry of the current thread, cached since its last dispatch, and what
   FetchPageEntry returns for a page is the entry of the current thread
   for that page, never one cached for another thread. *)
C37_TLBIsolation ==
    /\ [](abort = "" =>
            /\ \A i \in TLBSlots :
                  machine.tlb[i].valid =>
                     /\ machine.tlb[i].virtualPage \in VirtualPages
                     /\ machine.tlb[i]
                           = PageEntryOfCurrentThread(
                                machine.tlb[i].virtualPage)
            /\ \A vpn \in VirtualPages :
                  FetchedEntry(machine, vpn) # NoEntry =>
                     FetchedEntry(machine, vpn)
                        = PageEntryOfCurrentThread(vpn))
    /\ [][currentThread' # currentThread /\ abort' = "" =>
            /\ \A i \in TLBSlots : ~machine'.tlb[i].valid
            /\ machine'.lastUsed = NewLastUsed]_vars

(* Two threads have each loaded their page 0, into different frames; the
   one that runs has been dispatched again since and the TLB has returned
   its own entry to it. *)
C37_Witness ==
    /\ abort = ""
    /\ ev.op = "Translate.return"
    /\ ev.arg = PageEntryOfCurrentThread(ev.obj)
    /\ \E u \in Threads \ {currentThread} :
          /\ paging.pageTable[u][ev.obj].valid
          /\ paging.pageTable[u][ev.obj].physicalPage
                # ev.arg.physicalPage
          /\ paging.pageTable[u][ev.obj].physicalPage \in Frames
    /\ ev.arg.physicalPage \in Frames

(* The step is a call of CachePageEntry that finds every slot valid, and a
   call that finds an invalid slot. *)
CachesInFullTLB ==
    /\ ev'.op = "CachePageEntry"
    /\ \A i \in TLBSlots : machine.tlb[i].valid
CachesInFreeSlot ==
    /\ ev'.op = "CachePageEntry"
    /\ \E i \in TLBSlots : ~machine.tlb[i].valid

(* What CachePageEntry and FetchPageEntry do apart from the choice of the
   victim: CachePageEntry takes the first invalid slot if there is one; the
   slot it fills holds the entry, valid, and FetchPageEntry finds it; the
   slot cached or hit gets the current tick as its last use and the other
   slots keep theirs; an entry FetchPageEntry returned is returned until
   CachePageEntry overwrites its slot or CleanTLB runs. *)
CacheAndFetch ==
    /\ CachesInFreeSlot =>
          /\ ~machine.tlb[ev'.obj].valid
          /\ \A i \in TLBSlots : i < ev'.obj => machine.tlb[i].valid
    /\ ev'.op = "CachePageEntry" =>
          /\ machine'.tlb[ev'.obj] = ev'.arg.entry
          /\ FetchedEntry(machine', ev'.arg.entry.virtualPage) = ev'.arg.entry
          /\ machine'.lastUsed[ev'.obj] = machine'.totalTicks
          /\ \A i \in TLBSlots \ {ev'.obj} :
                /\ machine'.tlb[i] = machine.tlb[i]
                /\ machine'.lastUsed[i] = machine.lastUsed[i]
    /\ ev'.op = "FetchPageEntry" =>
          /\ ev'.arg.entry # NoEntry =>
                /\ ev'.arg.entry.valid
                /\ ev'.arg.entry.virtualPage = ev'.obj
                /\ ev'.arg.entry = machine.tlb[ev'.arg.slot]
          /\ ev'.arg.entry = NoEntry =>
                \A i \in TLBSlots :
                   ~(machine.tlb[i].valid
                     /\ machine.tlb[i].virtualPage = ev'.obj)
          /\ machine'.tlb = machine.tlb
          /\ \A i \in TLBSlots :
                machine'.lastUsed[i] =
                   IF i = ev'.arg.slot THEN machine'.totalTicks
                   ELSE machine.lastUsed[i]
    /\ \A vpn \in VirtualPages :
          /\ FetchedEntry(machine, vpn) # NoEntry
          /\ FetchedEntry(machine', vpn) # FetchedEntry(machine, vpn)
          => \/ ev'.op = "CleanTLB"
             \/ /\ ev'.op = "CachePageEntry"
                /\ ev'.obj = FetchSlot(machine, vpn)

(* C38, as stated: CachePageEntry in a full TLB overwrites a slot whose last
   use, a FetchPageEntry hit or a CachePageEntry, is not more recent than
   the last use of any other slot: the slot used least recently. *)
C38_LeastRecentlyUsed ==
    [][/\ CacheAndFetch
       /\ CachesInFullTLB => ev'.obj = Head(hist.tlbUses)]_vars

(* C38, amended: CachePageEntry in a full TLB overwrites the first of the
   slots whose last use has the least tick; of two slots last used at the
   same tick the lower one goes, whichever was used last. *)
C38_LeastLastUsedTick ==
    [][/\ CacheAndFetch
       /\ CachesInFullTLB =>
             /\ \A i \in TLBSlots :
                   machine.lastUsed[ev'.obj] <= machine.lastUsed[i]
             /\ \A i \in TLBSlots :
                   i < ev'.obj =>
                      machine.lastUsed[ev'.obj] < machine.lastUsed[i]]_vars

(* An entry has been cached in the full TLB over the valid entry of slot 1,
   the slot used least recently, and FetchPageEntry finds it. *)
C38_Witness ==
    /\ ev.op = "CachePageEntry"
    /\ ev.obj = 1
    /\ ev.arg.overwritten.valid
    /\ machine.tlb[0].valid
    /\ machine.lastUsed[0] < machine.lastUsed[1]
    /\ FetchedEntry(machine, ev.arg.entry.virtualPage) = ev.arg.entry

----------------------------------------------------------------------------
(* Properties of the file header chain. *)

(* The chain of headers of the file called name, a file of the directory,
   and the data sectors of its k-th header. *)
HeadersOf(name) ==
    FetchFrom(disk.sectors, DirectoryFind(disk.directory, name))
DataSectorsOf(hdr) == {hdr.dataSectors[i] : i \in 1..hdr.numSectors}

(* C39: for a file created with size s and an offset below s, ByteToSector
   returns dataSectors[(offset mod MaxFileSize) / SectorSize] of the header
   number offset div MaxFileSize of the chain, a sector of the file; a file
   of a size between MaxFileSize + 1 and 2 * MaxFileSize has exactly two
   chained headers, and its offsets from MaxFileSize on map to a data
   sector of the second header that is none of the sectors of the first. *)
C39_ByteToSector ==
    /\ ev.op = "ByteToSector" =>
          LET chain == HeadersOf(ev.obj.name)
              k == ev.obj.offset \div MaxFileSize
              i == (ev.obj.offset % MaxFileSize) \div SectorSize
          IN  /\ k + 1 <= Len(chain)
              /\ i + 1 <= chain[k + 1].numSectors
              /\ ev.arg = chain[k + 1].dataSectors[i + 1]
              /\ ev.arg \in disk.freeMap
    /\ \A name \in Names :
          DirectoryFind(disk.directory, name) # -1 =>
             LET chain == HeadersOf(name)
                 s == Head(chain).numBytes
             IN  s > MaxFileSize /\ s <= 2 * MaxFileSize =>
                    /\ Len(chain) = 2
                    /\ \A offset \in MaxFileSize..(s - 1) :
                          /\ ByteToSector(chain, offset)
                                \in DataSectorsOf(chain[2])
                          /\ ByteToSector(chain, offset)
                                \notin DataSectorsOf(chain[1])
                                          \cup {chain[1].nextFileHeaderSector}

(* The sector of byte MaxFileSize of a file of MaxFileSize + 1 bytes has
   been asked for, and it is the first data sector of the second header. *)
C39_Witness ==
    /\ ev.op = "ByteToSector"
    /\ ev.obj.offset = MaxFileSize
    /\ Head(HeadersOf(ev.obj.name)).numBytes = MaxFileSize + 1
    /\ Len(HeadersOf(ev.obj.name)) = 2
    /\ ev.arg = HeadersOf(ev.obj.name)[2].dataSectors[1]

----------------------------------------------------------------------------
(* Properties of Semaphore::SelfTest. *)

(* The loop of SelfTest and the loop of the helper are complete. *)
LoopComplete(t) ==
    /\ stack[t] # <<>>
    /\ \A i \in 1..Len(stack[t]) : stack[t][i].fn \notin {"P", "V"}
    /\ stack[t][1].obj > Len(prog[t])
PingPongDone ==
    /\ LoopComplete(MainThread)
    /\ hist.nV[Pong] = Rounds
    /\ hist.nP[Ping] = Rounds

(* No thread is in P and both semaphores have value 0 and nobody queued. *)
SemaphoresAtRest ==
    /\ \A t \in Threads : \A i \in 1..Len(stack[t]) : stack[t][i].fn # "P"
    /\ \A x \in {Ping, Pong} : sems[x].value = 0 /\ sems[x].queue = <<>>

(* C40: under every scheduler, priority order and preemption the loops of
   SelfTest and of its helper complete; from then on no thread is blocked
   in P and both semaphores have value 0 and an empty queue; the helper's
   i-th V of Pong comes after the i-th V of Ping, and no assertion
   fails. *)
C40_PingPongTerminates ==
    /\ <>PingPongDone
    /\ [](PingPongDone => SemaphoresAtRest)
    /\ [](hist.nV[Pong] <= hist.nV[Ping])
    /\ [](abort = "")

(* The loops are complete, after each thread has slept in P at least
   once. *)
C40_Witness ==
    /\ PingPongDone
    /\ hist.nV[Ping] = Rounds
    /\ hist.pBlocked[Ping] # <<>>
    /\ hist.pBlocked[Pong] # <<>>

============================================================================
